---- MODULE Spec2Model ----
(***************************************************************************)
(* Model of the next-analyst chat core:                                    *)
(*   - the LangGraph agent (agent.ts: callModel, routeAfterAgent,          *)
(*     ToolNode(safeTools)) and the streaming POST handler of /api/chat;   *)
(*   - the client hook useChat (sendMessage, approveToolCall,              *)
(*     rejectToolCall) that rebuilds the transcript from the event stream  *)
(*     and drives the sandbox execute route after a user approval.         *)
(*                                                                         *)
(* Every request (one sendMessage call or one approveToolCall call) is a   *)
(* process p \in Procs; the server-side turn that answers p's /api/chat    *)
(* request is indexed by the same p.                                       *)
(*                                                                         *)
(* Strings are sequences of tokens, so that concatenation is \o.           *)
(***************************************************************************)
EXTENDS Integers, Sequences, FiniteSets, TLC

\* ------------------------------------------------------------------ bounds
MaxProcs == 2        \* hook calls (sendMessage, approveToolCall) per run
MaxChunks == 2       \* text chunks the model streams per run
MaxToolSteps == 2    \* model calls per run that may return any tool-call list
MaxFailures == 1     \* failed requests and throwing model calls per run

\* ------------------------------------------------------- program constants
recursionLimit == 25

Procs == 1..MaxProcs

\* ------------------------------------------------------------ tool registry
confirmAction == "confirm_action"
searchKnowledge == "search_knowledge"
calculateData == "calculate"
executePython == "execute_python"

safeTools == {confirmAction, searchKnowledge, calculateData}
allTools == safeTools \cup {executePython}

\* A tool call of an AIMessage: the tool's name and its args (for
\* execute_python the code string, for a safe tool its single argument).
TC(name, args) == [name |-> name, args |-> args]

\* A tool-call result / execution result.  "none" is the absent result.
Result(type, code, gen, error) ==
  [type |-> type, code |-> code, generatedFiles |-> gen, error |-> error]
NoResult == Result("none", "", <<>>, "")

\* The value a safe tool returns for its arguments (JSON.stringify(...)).
safeToolResult(name, args) ==
  CASE name = confirmAction -> Result("confirmation_required", args, <<>>, "")
    [] name = searchKnowledge -> Result("search_result", args, <<>>, "")
    [] name = calculateData ->
         IF args = "bad" THEN Result("calculation_error", args, <<>>, "Invalid expression")
         ELSE Result("calculation", args, <<>>, "")
    [] OTHER -> Result("hitl_required", "", <<>>, "")

\* ------------------------------------------------------------ stream frames
Frame(type, content, tool, args, result, errorType) ==
  [type |-> type, content |-> content, tool |-> tool, args |-> args,
   result |-> result, errorType |-> errorType]
TextDelta(c) == Frame("text_delta", c, "", "", NoResult, "")
ToolCallFrame(name, args, result) == Frame("tool_call", <<>>, name, args, result, "")
PendingFrame(name, args) == Frame("pending_tool_call", <<>>, name, args, NoResult, "")
ErrorFrame(errorType, content) == Frame("error", content, "", "", NoResult, errorType)
DoneFrame == Frame("done", <<>>, "", "", NoResult, "")

\* ------------------------------------------------------ LangChain messages
LCMsg(role, content, calls) == [role |-> role, content |-> content, tool_calls |-> calls]

\* ---------------------------------------------------------------- helpers
RECURSIVE Concat(_)
Concat(ss) == IF ss = <<>> THEN <<>> ELSE Head(ss) \o Concat(Tail(ss))

Map(f(_), s) == [i \in 1..Len(s) |-> f(s[i])]

SelectIdx(s, Test(_)) == {i \in 1..Len(s) : Test(s[i])}

Last(s) == s[Len(s)]

VARIABLES
  srv,           \* srv[p]: the server-side turn answering p's /api/chat request
  messages,      \* useChat: the transcript (React state)
  isLoading,     \* useChat: isLoading
  pendingFiles,  \* useChat: files attached to the turn being composed
  sessionFiles,  \* useChat: files of the conversation
  proc,          \* proc[p]: locals and position of the p-th hook call
  sandboxRuns,   \* code run by the execute route, in order
  nextId,        \* source of fresh ids (Date.now(), crypto.randomUUID())
  routeCalls,    \* routeCalls[c]: locals and position of the c-th sandbox route call
  sandboxes,     \* the sandboxes Sandbox.create has handed out, in order
  requestCounts, \* /api/chat: requestCounts (Map ip -> {count, resetTime})
  now,           \* Date.now() as the /api/chat route reads it
  chatLog,       \* what the /api/chat admissions did so far (history)
  dataset,       \* the preview handed to classifyDataset and what it returned
  wire           \* one response body of /api/chat: frames written, bytes on the way, frames applied

\* State of the sandbox routes and of the rate limiter of /api/chat.
sandboxVars == <<routeCalls, sandboxes>>

limitVars == <<requestCounts, now, chatLog, dataset, wire>>

routeVars == <<sandboxVars, limitVars>>

chatVars == <<srv, messages, isLoading, pendingFiles, sessionFiles, proc, sandboxRuns, nextId>>

vars == <<srv, messages, isLoading, pendingFiles, sessionFiles, proc, sandboxRuns, nextId,
          routeCalls, sandboxes, requestCounts, now, chatLog, dataset, wire>>

clientVars == <<messages, isLoading, pendingFiles, sessionFiles, proc, sandboxRuns, nextId,
                routeVars>>

\* ======================================================================
\*  Server: the agent graph and the /api/chat stream
\* ======================================================================

IdleTurn ==
  [node |-> "idle", msgs |-> <<>>, steps |-> 0, toolIdx |-> 0,
   out |-> <<>>, closed |-> FALSE, ran |-> <<>>]

\* graph.streamEvents({messages: langchainMessages}, ...): START -> agent
StartTurn(langchainMessages) == [IdleTurn EXCEPT !.node = "agent", !.msgs = langchainMessages]

\* f[1] + ... + f[n]
RECURSIVE Sum(_, _)
Sum(f, n) == IF n = 0 THEN 0 ELSE f[n] + Sum(f, n - 1)

\* Model calls so far that returned tool calls, and text frames so far.
ToolSteps ==
  Sum([p \in Procs |->
         Cardinality(SelectIdx(srv[p].msgs, LAMBDA m : m.role = "ai" /\ Len(m.tool_calls) > 0))],
      MaxProcs)
TextFrames ==
  Sum([p \in Procs |->
         Cardinality(SelectIdx(srv[p].out, LAMBDA f : f.type = "text_delta"))],
      MaxProcs)

\* Failures so far: turns ended by a throw, hook calls ended by a failed request.
Failures ==
  Sum([p \in Procs |->
         (IF \E i \in 1..Len(srv[p].out) : srv[p].out[i].type = "error" THEN 1 ELSE 0)
         + (IF proc[p].failed THEN 1 ELSE 0)],
      MaxProcs)

\* Tool-call lists a model call may return.
ModelCalls ==
  { <<>>,
    <<TC(calculateData, "1+1")>>,
    <<TC(searchKnowledge, "q"), TC(confirmAction, "act")>>,
    <<TC(executePython, "code1")>>,
    <<TC(executePython, "code1"), TC(executePython, "code2")>>,
    <<TC(confirmAction, "act"), TC(executePython, "code1")>> }

hasExecutePython(calls) == \E i \in 1..Len(calls) : calls[i].name = executePython

\* Outputs of a model call once MaxToolSteps is used up: a single call or
\* none, so that a long AGENT/TOOLS cycle stays enumerable.
LateCalls == {c \in ModelCalls : Len(c) <= 1}

ChunkContents == {<<>>, <<"a">>}

\* Faulty routers: one that looks at the first tool call only, one that
\* never halts for execute_python, one that sends a plain answer to the
\* tools node.
routeFirstCallOnly(state) ==
  LET lastMsg == state[Len(state)] IN
  IF Len(lastMsg.tool_calls) > 0
  THEN IF lastMsg.tool_calls[1].name = executePython THEN "END" ELSE "tools"
  ELSE "END"

routeNeverHalts(state) ==
  LET lastMsg == state[Len(state)] IN
  IF Len(lastMsg.tool_calls) > 0 THEN "tools" ELSE "END"

routeEmptyToTools(state) ==
  LET lastMsg == state[Len(state)] IN
  IF Len(lastMsg.tool_calls) > 0
  THEN IF \E i \in 1..Len(lastMsg.tool_calls) : lastMsg.tool_calls[i].name = executePython
       THEN "END"
       ELSE "tools"
  ELSE "tools"

\* routeAfterAgent(state): "END" or "tools"
routeAfterAgent(state) ==
  LET lastMsg == state[Len(state)] IN
  IF Len(lastMsg.tool_calls) > 0
  THEN IF \E i \in 1..Len(lastMsg.tool_calls) : lastMsg.tool_calls[i].name = executePython
       THEN "END"
       ELSE "tools"
  ELSE "END"

\* The frames the stream loop enqueues for on_chat_model_end.
PendingFrames(calls) ==
  LET idx == SelectIdx(calls, LAMBDA tc : tc.name = executePython)
      RECURSIVE Build(_)
      Build(i) == IF i > Len(calls) THEN <<>>
                  ELSE (IF i \in idx THEN <<PendingFrame(calls[i].name, calls[i].args)>> ELSE <<>>)
                       \o Build(i + 1)
  IN Build(1)

Running(p) == srv[p].node \in {"agent", "tools"} /\ ~srv[p].closed

\* on_chat_model_stream: one token chunk of the running model call.
ModelStream(p, c) ==
  /\ Running(p) /\ srv[p].node = "agent"
  /\ srv[p].steps < recursionLimit
  /\ TextFrames < MaxChunks
  /\ srv' = [srv EXCEPT ![p].out = IF Len(c) > 0 THEN Append(@, TextDelta(c)) ELSE @]
  /\ UNCHANGED clientVars

\* The agent node returns (callModel), on_chat_model_end is handled by the
\* stream loop, and routeAfterAgent picks the next node.
callModel(p, calls) ==
  /\ Running(p) /\ srv[p].node = "agent"
  /\ srv[p].steps < recursionLimit
  /\ LET response == LCMsg("ai", <<>>, calls)
         state == Append(srv[p].msgs, response)
     IN srv' = [srv EXCEPT ![p].msgs = state,
                           ![p].steps = @ + 1,
                           ![p].out = @ \o PendingFrames(calls),
                           ![p].node = routeAfterAgent(state)]
  /\ UNCHANGED clientVars

\* model.invoke throws: the catch block of the stream's start().
errorTypeOf(name) == IF name = "RecursionError" THEN "recursion_limit" ELSE "execution_error"

\* A catch block that ends the stream as a finished turn.
CatchFramesSilent(name) == <<DoneFrame>>

CatchFrames(name) == <<ErrorFrame(errorTypeOf(name), <<"Error">>)>>

ModelThrow(p) ==
  /\ Running(p) /\ srv[p].node = "agent"
  /\ srv[p].steps < recursionLimit
  /\ Failures < MaxFailures
  /\ srv' = [srv EXCEPT ![p].out = @ \o CatchFrames("Error"), ![p].closed = TRUE]
  /\ UNCHANGED clientVars

\* ToolNode(safeTools) runs the next call of the last AIMessage; the stream
\* loop turns its on_tool_end into a tool_call frame.  A call whose tool is
\* not in safeTools is not run (ToolNode answers it with an error message).
ToolEnd(p) ==
  /\ Running(p) /\ srv[p].node = "tools"
  /\ srv[p].steps < recursionLimit
  /\ LET calls == Last(srv[p].msgs).tool_calls
         i == srv[p].toolIdx + 1
     IN /\ i <= Len(calls)
        /\ srv' = [srv EXCEPT
              ![p].toolIdx = i,
              ![p].ran = IF calls[i].name \in safeTools THEN Append(@, calls[i]) ELSE @,
              ![p].out = IF calls[i].name \in safeTools
                         THEN Append(@, ToolCallFrame(calls[i].name, calls[i].args,
                                          safeToolResult(calls[i].name, calls[i].args)))
                         ELSE @]
  /\ UNCHANGED clientVars

\* A tools node that goes back to the agent before its calls have run.
ToolsReturnEarly(p) ==
  /\ Running(p) /\ srv[p].node = "tools"
  /\ LET calls == Last(srv[p].msgs).tool_calls
     IN srv' = [srv EXCEPT
           ![p].msgs = @ \o Map(LAMBDA tc : LCMsg("tool", <<tc.name>>, <<>>), calls),
           ![p].steps = @ + 1,
           ![p].toolIdx = 0,
           ![p].node = "agent"]
  /\ UNCHANGED clientVars

\* The tools node returns its ToolMessages; edge tools -> agent.
ToolsReturn(p) ==
  /\ Running(p) /\ srv[p].node = "tools"
  /\ LET calls == Last(srv[p].msgs).tool_calls
     IN /\ srv[p].toolIdx = Len(calls)
        /\ srv' = [srv EXCEPT
              ![p].msgs = @ \o Map(LAMBDA tc : LCMsg("tool", <<tc.name>>, <<>>), calls),
              ![p].steps = @ + 1,
              ![p].toolIdx = 0,
              ![p].node = "agent"]
  /\ UNCHANGED clientVars

\* recursionLimit supersteps ran and the graph has not reached END:
\* streamEvents throws GraphRecursionError, handled by the catch block.
GraphRecursion(p) ==
  /\ Running(p)
  /\ srv[p].steps >= recursionLimit
  /\ srv' = [srv EXCEPT ![p].out = @ \o CatchFrames("GraphRecursionError"), ![p].closed = TRUE]
  /\ UNCHANGED clientVars

\* The event stream is exhausted: done frame, controller.close().
DoneFrames == <<DoneFrame>>

GraphEnd(p) ==
  /\ srv[p].node = "END" /\ ~srv[p].closed
  /\ srv' = [srv EXCEPT ![p].out = @ \o DoneFrames, ![p].closed = TRUE]
  /\ UNCHANGED clientVars

\* ======================================================================
\*  Client: useChat (transcript, sendMessage, approveToolCall, rejectToolCall)
\* ======================================================================

ToolCall(tool, args, status, result) ==
  [tool |-> tool, args |-> args, status |-> status, result |-> result]
NoToolCall == ToolCall("", "", "", NoResult)

TextPart(text) == [type |-> "text", text |-> text, toolCall |-> NoToolCall]
ToolCallPart(tc) == [type |-> "tool_call", text |-> <<>>, toolCall |-> tc]

\* A Message.  parts = <<>> also stands for an undefined parts field: every
\* reader treats the two alike (m.parts?.map, parts && parts.length > 0).
Message(id, role, content, isStreaming) ==
  [id |-> id, role |-> role, content |-> content, toolCalls |-> <<>>,
   parts |-> <<>>, isStreaming |-> isStreaming]
NoMessage == Message(0, "", <<>>, FALSE)

FileAttachment(id, name, isPreviewing, isGenerated) ==
  [id |-> id, name |-> name, isPreviewing |-> isPreviewing, isGenerated |-> isGenerated]

ChatBody(msgs, files, toolResult, sfiles) ==
  [messages |-> msgs, files |-> files, toolResult |-> toolResult, sessionFiles |-> sfiles]
NoBody == ChatBody(<<>>, <<>>, NoResult, <<>>)

IdleProc ==
  [pc |-> "idle", kind |-> "none", messageId |-> 0, toolCallIndex |-> 0,
   msg |-> NoMessage, files |-> <<>>, history |-> <<>>, body |-> NoBody,
   executionResult |-> NoResult,
   accContent |-> <<>>, accToolCalls |-> <<>>, accParts |-> <<>>, rd |-> 0,
   failed |-> FALSE]

RoleContent(m) == [role |-> m.role, content |-> m.content]

\* A map callback that forgets to test the id.
sameIdAlways(m, id) == TRUE

\* m.id === messageId, the test of every setMessages map callback
sameId(m, id) == m.id = id

\* setMessages(prev => prev.map(m => m.id === id ? f(m) : m))
MapMessage(prev, id, f(_)) ==
  [i \in 1..Len(prev) |-> IF sameId(prev[i], id) THEN f(prev[i]) ELSE prev[i]]

\* messages.find(m => m.id === id)
FindMessage(list, id) ==
  IF \E i \in 1..Len(list) : list[i].id = id
  THEN list[CHOOSE i \in 1..Len(list) :
              list[i].id = id /\ \A j \in 1..(i - 1) : list[j].id # id]
  ELSE NoMessage

\* messages.findIndex(m => m.id === id), 1-based; 0 when absent
FindIndex(list, id) ==
  IF \E i \in 1..Len(list) : list[i].id = id
  THEN CHOOSE i \in 1..Len(list) : list[i].id = id /\ \A j \in 1..(i - 1) : list[j].id # id
  ELSE 0

\* Number of tool_call parts among the first k parts.
RECURSIVE toolCallCounter(_, _)
toolCallCounter(parts, k) ==
  IF k = 0 THEN 0
  ELSE toolCallCounter(parts, k - 1) + (IF parts[k].type = "tool_call" THEN 1 ELSE 0)

\* parts.map with the running toolCallCounter: f is applied to the tool call
\* of the part that is the index-th tool_call part (1-based).
MapToolCallPart(parts, index, f(_)) ==
  [k \in 1..Len(parts) |->
     IF parts[k].type = "tool_call" /\ toolCallCounter(parts, k) = index
     THEN [parts[k] EXCEPT !.toolCall = f(@)]
     ELSE parts[k]]

\* toolCalls.map((t, i) => i === index ? f(t) : t)
MapToolCall(toolCalls, index, f(_)) ==
  [i \in 1..Len(toolCalls) |-> IF i = index THEN f(toolCalls[i]) ELSE toolCalls[i]]

\* The accumulators after a text_delta: merge into a trailing text part or
\* push a new text part.
AppendText(accParts, c) ==
  IF Len(accParts) > 0 /\ Last(accParts).type = "text"
  THEN [accParts EXCEPT ![Len(accParts)] = TextPart(@.text \o c)]
  ELSE Append(accParts, TextPart(c))

FreeProcs == {p \in Procs : proc[p].pc = "idle"}
NextProc == CHOOSE p \in FreeProcs : \A q \in FreeProcs : p <= q

\* ------------------------------------------------- addFiles and removeFile
MaxAttach == 3       \* files attached per run

\* A file the user picked: its name and whether its extension is a data
\* extension (dataExts) of addFiles.
Upload(name, data) == [name |-> name, data |-> data]

\* Files attached so far (every send takes two ids, every attached file one).
Attached == nextId - 1 - Len(messages)

\* ChatInput gives each picked file a fresh id; addFiles appends them to the
\* pending files, previewing unless the file is not a data file.
addFiles(files) ==
  /\ Len(files) > 0
  /\ Attached + Len(files) <= MaxAttach
  /\ pendingFiles' = pendingFiles \o
       [i \in 1..Len(files) |->
          FileAttachment(nextId + i - 1, files[i].name, files[i].data, FALSE)]
  /\ nextId' = nextId + Len(files)
  /\ UNCHANGED <<routeVars, srv, messages, isLoading, sessionFiles, proc, sandboxRuns>>

\* fetchRichPreview of file id returned: the pending file of that id ends previewing.
previewDone(id) ==
  /\ \E i \in 1..Len(pendingFiles) : pendingFiles[i].id = id /\ pendingFiles[i].isPreviewing
  /\ pendingFiles' = [i \in 1..Len(pendingFiles) |->
                        IF pendingFiles[i].id = id
                        THEN [pendingFiles[i] EXCEPT !.isPreviewing = FALSE]
                        ELSE pendingFiles[i]]
  /\ UNCHANGED <<routeVars, srv, messages, isLoading, sessionFiles, proc, sandboxRuns, nextId>>

removeFile(id) ==
  /\ \E i \in 1..Len(pendingFiles) : pendingFiles[i].id = id
  /\ pendingFiles' = SelectSeq(pendingFiles, LAMBDA f : f.id /= id)
  /\ UNCHANGED <<routeVars, srv, messages, isLoading, sessionFiles, proc, sandboxRuns, nextId>>

\* ---------------------------------------------------------------- sendMessage
sendMessage(content) ==
  /\ FreeProcs # {}
  /\ ~isLoading                       \* ChatInput: the send button is disabled
  /\ \A i \in 1..Len(pendingFiles) : ~pendingFiles[i].isPreviewing      \* anyPreviewing
  /\ LET p == NextProc
         currentFiles == pendingFiles
         userMessage == Message(nextId, "user", content, FALSE)
         assistantMessage == [Message(nextId + 1, "assistant", <<>>, TRUE) EXCEPT !.toolCalls = <<>>]
         allMessages == Map(RoleContent, messages) \o <<[role |-> "user", content |-> content]>>
         allSessionFiles == sessionFiles \o currentFiles
     IN /\ sessionFiles' = IF Len(currentFiles) > 0 THEN sessionFiles \o currentFiles ELSE sessionFiles
        /\ pendingFiles' = <<>>
        /\ messages' = messages \o <<userMessage, assistantMessage>>
        /\ isLoading' = TRUE
        /\ nextId' = nextId + 2
        /\ proc' = [proc EXCEPT ![p] =
              [IdleProc EXCEPT !.pc = "fetch", !.kind = "send",
                               !.messageId = assistantMessage.id,
                               !.body = ChatBody(allMessages, currentFiles, NoResult, allSessionFiles)]]
  /\ UNCHANGED <<routeVars, srv, sandboxRuns>>

\* ------------------------------------------------------------ /api/chat POST
FileContext(f) == <<"file", f.name, IF f.isGenerated THEN "generated" ELSE "uploaded">>

\* The human message that folds an execution result into the context.
ToolResultSummary(toolResult) ==
  <<"[result]">>
    \o (IF toolResult.code # "" THEN <<"code", toolResult.code>> ELSE <<>>)
    \o (IF toolResult.error # "" THEN <<"error", toolResult.error>> ELSE <<>>)
    \o Concat(Map(LAMBDA n : <<"generated", n>>, toolResult.generatedFiles))
    \o <<"[explain]">>

buildLangChainMessages(msgs, files, toolResult, sfiles) ==
  LET effectiveSessionFiles == IF Len(sfiles) > 0 THEN sfiles ELSE files
      sessionFileContext == Concat(Map(FileContext, effectiveSessionFiles))
      newFileContext == Concat(Map(FileContext, files))
      processedMessages ==
        [i \in 1..Len(msgs) |->
           IF Len(files) > 0 /\ i = Len(msgs) /\ msgs[i].role = "user"
           THEN [msgs[i] EXCEPT !.content = @ \o newFileContext]
           ELSE msgs[i]]
      convert(m) == IF m.role = "assistant" THEN LCMsg("ai", m.content, <<>>)
                    ELSE LCMsg("human", m.content, <<>>)
  IN <<LCMsg("system", <<"SYSTEM_PROMPT">> \o sessionFileContext, <<>>)>>
       \o Map(convert, processedMessages)
       \o (IF toolResult # NoResult
           THEN <<LCMsg("human", ToolResultSummary(toolResult), <<>>)>>
           ELSE <<>>)

\* The accumulators a follow-up starts from: the snapshot of the message
\* with the approved record completed.
completedWith(result, t) == [t EXCEPT !.status = "completed", !.result = result]

\* The server accepts p's request and starts the graph; the client gets the
\* response and its reader (its accumulators are locals of the call).
POST(p) ==
  /\ proc[p].pc = "fetch" /\ srv[p].node = "idle"
  /\ LET b == proc[p].body
         me == proc[p]
         done(t) == completedWith(me.executionResult, t)
     IN /\ srv' = [srv EXCEPT ![p] =
                StartTurn(buildLangChainMessages(b.messages, b.files, b.toolResult, b.sessionFiles))]
        /\ proc' = [proc EXCEPT ![p] =
              IF me.kind = "send"
              THEN [me EXCEPT !.pc = "read"]
              ELSE [me EXCEPT
                      !.pc = "read",
                      !.accContent = IF Len(me.msg.content) > 0
                                     THEN me.msg.content \o <<"SEP">> ELSE <<>>,
                      !.accToolCalls = MapToolCall(me.msg.toolCalls, me.toolCallIndex, done),
                      !.accParts = MapToolCallPart(me.msg.parts, me.toolCallIndex, done)]]
  /\ UNCHANGED <<routeVars, messages, isLoading, pendingFiles, sessionFiles, sandboxRuns, nextId>>

\* The request fails (network error, or a response that is not ok): catch.
sendCatch(m) == [m EXCEPT !.content = <<"ERR:send">>, !.isStreaming = FALSE]
followUpCatch(m) == [m EXCEPT !.content = @ \o <<"SEP", "ERR:followup">>, !.isStreaming = FALSE]

ChatRequestFails(p) ==
  /\ proc[p].pc = "fetch" /\ srv[p].node = "idle"
  /\ Failures < MaxFailures
  /\ messages' = IF proc[p].kind = "send"
                 THEN MapMessage(messages, proc[p].messageId, sendCatch)
                 ELSE MapMessage(messages, proc[p].messageId, followUpCatch)
  /\ isLoading' = FALSE
  /\ proc' = [proc EXCEPT ![p].pc = "done", ![p].failed = TRUE]
  /\ UNCHANGED <<routeVars, srv, pendingFiles, sessionFiles, sandboxRuns, nextId>>

\* ------------------------------------------------- reading the event stream
\* One frame of p's stream, handled by the reader loop of sendMessage
\* (text_delta, tool_call, pending_tool_call, error, done) or of
\* approveToolCall's follow-up (the same without an error branch).
newToolCallOf(f) ==
  IF f.type = "tool_call" THEN ToolCall(f.tool, f.args, "completed", f.result)
  ELSE ToolCall(f.tool, f.args, "pending", NoResult)

\* An accumulator assigned where it should be appended to.
appendDeltaAssign(accContent, content) == content

\* accContent += data.content
appendDelta(accContent, content) == accContent \o content

ReadFrame(p) ==
  /\ proc[p].pc = "read"
  /\ proc[p].rd < Len(srv[p].out)
  /\ LET me == proc[p]
         f == srv[p].out[me.rd + 1]
         id == me.messageId
     IN CASE f.type = "text_delta" ->
               LET accContent == appendDelta(me.accContent, f.content)
                   accParts == AppendText(me.accParts, f.content)
                   upd(m) == [m EXCEPT !.content = accContent, !.parts = accParts]
               IN /\ proc' = [proc EXCEPT ![p].rd = @ + 1, ![p].accContent = accContent,
                                          ![p].accParts = accParts]
                  /\ messages' = MapMessage(messages, id, upd)
          [] f.type \in {"tool_call", "pending_tool_call"} ->
               LET accToolCalls == Append(me.accToolCalls, newToolCallOf(f))
                   accParts == Append(me.accParts, ToolCallPart(newToolCallOf(f)))
                   upd(m) == [m EXCEPT !.toolCalls = accToolCalls, !.parts = accParts]
               IN /\ proc' = [proc EXCEPT ![p].rd = @ + 1, ![p].accToolCalls = accToolCalls,
                                          ![p].accParts = accParts]
                  /\ messages' = MapMessage(messages, id, upd)
          [] f.type = "error" /\ me.kind = "send" ->
               LET accContent == me.accContent \o f.content
                   upd(m) == [m EXCEPT !.content = accContent]
               IN /\ proc' = [proc EXCEPT ![p].rd = @ + 1, ![p].accContent = accContent]
                  /\ messages' = MapMessage(messages, id, upd)
          [] f.type = "done" ->
               LET upd(m) == [m EXCEPT !.isStreaming = FALSE]
               IN /\ proc' = [proc EXCEPT ![p].rd = @ + 1]
                  /\ messages' = MapMessage(messages, id, upd)
          [] OTHER ->
               /\ proc' = [proc EXCEPT ![p].rd = @ + 1]
               /\ messages' = messages
  /\ UNCHANGED <<routeVars, srv, isLoading, pendingFiles, sessionFiles, sandboxRuns, nextId>>

\* reader.read() reports done: the loop ends, finally { setIsLoading(false) }
ReadEnd(p) ==
  /\ proc[p].pc = "read"
  /\ srv[p].closed /\ proc[p].rd = Len(srv[p].out)
  /\ isLoading' = FALSE
  /\ proc' = [proc EXCEPT ![p].pc = "done"]
  /\ UNCHANGED <<routeVars, srv, messages, pendingFiles, sessionFiles, sandboxRuns, nextId>>

\* ------------------------------------------------------------ approveToolCall
\* CodeResultCard shows its buttons for the index-th execute_python card of
\* the message while the record it renders is pending; ChatMessages renders
\* the cards from parts, and from toolCalls when the message has no parts.
RenderedCalls(m) ==
  IF Len(m.parts) > 0
  THEN LET idx == {k \in 1..Len(m.parts) : m.parts[k].type = "tool_call"}
       IN [i \in 1..Cardinality(idx) |->
             m.parts[CHOOSE k \in idx : toolCallCounter(m.parts, k) = i].toolCall]
  ELSE m.toolCalls

ButtonsShown(m, index) ==
  /\ index \in 1..Len(RenderedCalls(m))
  /\ RenderedCalls(m)[index].tool = executePython
  /\ RenderedCalls(m)[index].status = "pending"

\* An approval without its status guard.
approveGuardAny(tc) == TRUE

\* The guard of approveToolCall on the record it finds.
approveGuard(tc) == tc.status = "pending"

markApproved(t) == [t EXCEPT !.status = "approved"]

\* The body of the request to /api/chat/execute.
ExecuteBody(me) ==
  [tool |-> me.msg.toolCalls[me.toolCallIndex].tool,
   args |-> me.msg.toolCalls[me.toolCallIndex].args,
   files |-> Map(LAMBDA f : f.name, me.files)]

approveToolCall(messageId, toolCallIndex) ==
  /\ FreeProcs # {}
  /\ LET msg == FindMessage(messages, messageId)
         p == NextProc
         upd(m) == [m EXCEPT
                      !.parts = MapToolCallPart(m.parts, toolCallIndex, markApproved),
                      !.toolCalls = MapToolCall(m.toolCalls, toolCallIndex, markApproved)]
     IN /\ msg # NoMessage
        /\ ButtonsShown(msg, toolCallIndex)
        /\ toolCallIndex \in 1..Len(msg.toolCalls)
        /\ approveGuard(msg.toolCalls[toolCallIndex])
        /\ messages' = MapMessage(messages, messageId, upd)
        /\ proc' = [proc EXCEPT ![p] =
              [IdleProc EXCEPT
                 !.pc = "exec", !.kind = "approve",
                 !.messageId = messageId, !.toolCallIndex = toolCallIndex,
                 !.msg = msg, !.files = sessionFiles,
                 !.history = Map(RoleContent,
                                 SubSeq(messages, 1, FindIndex(messages, messageId) - 1))]]
  /\ UNCHANGED <<routeVars, srv, isLoading, pendingFiles, sessionFiles, sandboxRuns, nextId>>

\* What the execute route answers for a piece of code.
ExecOutcomes(code) ==
  { Result("code_execution", code, <<"out.csv">>, ""),
    Result("code_execution", code, <<>>, "NameError") }

\* setSessionFiles(prev => [...prev.filter(not a new name), ...new])
mergeGenerated(prev, newGen) ==
  SelectSeq(prev, LAMBDA f : \A i \in 1..Len(newGen) : newGen[i].name # f.name) \o newGen

\* A follow-up request that leaves the execution result out.
FollowUpBodyNoResult(me, executionResult, newGen) ==
  LET conversationHistory ==
        me.history \o (IF Len(me.msg.content) > 0
                       THEN <<[role |-> "assistant", content |-> me.msg.content]>>
                       ELSE <<>>)
  IN ChatBody(conversationHistory, <<>>, NoResult, mergeGenerated(me.files, newGen))

\* The follow-up request of an approval whose execution has answered.
FollowUpBody(me, executionResult, newGen) ==
  LET conversationHistory ==
        me.history \o (IF Len(me.msg.content) > 0
                       THEN <<[role |-> "assistant", content |-> me.msg.content]>>
                       ELSE <<>>)
  IN ChatBody(conversationHistory, <<>>, executionResult, mergeGenerated(me.files, newGen))

\* The execute route runs the code in a sandbox and answers; the call goes
\* on: record completed, generated files merged, follow-up request sent.
ExecuteDone(p, executionResult) ==
  /\ proc[p].pc = "exec"
  /\ LET me == proc[p]
         newGenSessionFiles == Map(LAMBDA n : FileAttachment(<<"gen", n>>, n, FALSE, TRUE),
                                   executionResult.generatedFiles)
         done(t) == completedWith(executionResult, t)
         upd(m) == [m EXCEPT !.toolCalls = MapToolCall(m.toolCalls, me.toolCallIndex, done),
                             !.isStreaming = TRUE]
     IN /\ sandboxRuns' = Append(sandboxRuns, [proc |-> p, code |-> ExecuteBody(me).args,
                                               messageId |-> me.messageId,
                                               toolCallIndex |-> me.toolCallIndex])
        /\ messages' = MapMessage(messages, me.messageId, upd)
        /\ sessionFiles' = IF Len(newGenSessionFiles) > 0
                           THEN mergeGenerated(sessionFiles, newGenSessionFiles)
                           ELSE sessionFiles
        /\ isLoading' = TRUE
        /\ proc' = [proc EXCEPT ![p].pc = "fetch",
                                ![p].executionResult = executionResult,
                                ![p].body = FollowUpBody(me, executionResult, newGenSessionFiles)]
  /\ UNCHANGED <<routeVars, srv, pendingFiles, nextId>>

\* The execute request itself fails: record completed with an error result,
\* no follow-up.
ExecuteFails(p) ==
  /\ proc[p].pc = "exec"
  /\ Failures < MaxFailures
  /\ LET me == proc[p]
         failed(t) == completedWith(Result("code_execution_error", "", <<>>, "failed"), t)
         upd(m) == [m EXCEPT !.toolCalls = MapToolCall(m.toolCalls, me.toolCallIndex, failed)]
     IN /\ messages' = MapMessage(messages, me.messageId, upd)
        /\ proc' = [proc EXCEPT ![p].pc = "done", ![p].failed = TRUE]
  /\ UNCHANGED <<routeVars, srv, isLoading, pendingFiles, sessionFiles, sandboxRuns, nextId>>

\* ------------------------------------------------------------- rejectToolCall
markRejected(t) == [t EXCEPT !.status = "rejected"]

rejectToolCall(messageId, toolCallIndex) ==
  /\ LET msg == FindMessage(messages, messageId)
         upd(m) == [m EXCEPT !.toolCalls = MapToolCall(m.toolCalls, toolCallIndex, markRejected)]
     IN /\ msg # NoMessage
        /\ ButtonsShown(msg, toolCallIndex)
        /\ messages' = MapMessage(messages, messageId, upd)
  /\ UNCHANGED <<routeVars, srv, isLoading, pendingFiles, sessionFiles, proc, sandboxRuns, nextId>>

\* -------------------------------------------------------------- clearMessages
clearMessages ==
  /\ messages' = <<>>
  /\ pendingFiles' = <<>>
  /\ sessionFiles' = <<>>
  /\ UNCHANGED <<routeVars, srv, isLoading, proc, sandboxRuns, nextId>>

\* ======================================================================
\* Sandbox routes: POST /api/chat/execute and POST /api/chat/preview
\* ======================================================================
MaxCalls == 2        \* route calls per run
MaxResults == 3      \* results of one code run
MaxEntries == 7      \* files one code run leaves in /home/user

MAX_SINGLE_FILE_SIZE == 5242880     \* 5 * 1024 * 1024
MAX_TOTAL_FILE_SIZE == 20971520     \* 20 * 1024 * 1024
MAX_FILE_SIZE == 10485760            \* 10 * 1024 * 1024
fingerprintLength == 200
maxNameLength == 255

Calls == 1..MaxCalls

Min(a, b) == IF a <= b THEN a ELSE b

\* File names and extensions are sequences of characters.
Pad(n, ch) == [i \in 1..n |-> ch]

SUPPORTED_FORMATS ==
  { <<"c","s","v">>, <<"t","s","v">>, <<"t","x","t">>, <<"j","s","o","n">>,
    <<"x","l","s","x">>, <<"x","l","s">>, <<"p","a","r","q","u","e","t">> }
previewableExts == SUPPORTED_FORMATS

\* String.prototype.substring(start, end) for 0 <= start <= end.
substring(s, start, end) == SubSeq(s, start + 1, Min(end, Len(s)))

\* String.prototype.startsWith for a one-character prefix.
startsWith(s, ch) == Len(s) > 0 /\ s[1] = ch

\* String.prototype.toLowerCase on the characters that occur in the names.
toLowerCase(s) ==
  [i \in 1..Len(s) |->
     CASE s[i] = "C" -> "c" [] s[i] = "S" -> "s" [] s[i] = "V" -> "v" [] OTHER -> s[i]]

\* name.split(".").pop(): the part after the last dot, the whole name without one.
splitPop(name) ==
  LET dots == {i \in 1..Len(name) : name[i] = "."}
  IN IF dots = {} THEN name
     ELSE LET last == CHOOSE i \in dots : \A j \in dots : j <= i
          IN SubSeq(name, last + 1, Len(name))

extOf(name) == toLowerCase(splitPop(name))

\* A file of a request body: its name and the length of its decoded content
\* (Buffer.from(content, "base64").length); an empty content has length 0.
RouteFile(name, content) == [name |-> name, content |-> content]

\* The JSON body of a route request.  The preview route reads body.file,
\* held here as the only element of files (no element: no file).
RouteBody(tool, code, files) == [tool |-> tool, code |-> code, files |-> files]
NoRouteBody == RouteBody("", "", <<>>)

\* One result of a code run (text, png; the absent png is <<>>).
ExecResult(text, png) == [text |-> text, png |-> png]
NoPng == <<>>

\* An entry of the sandbox directory /home/user.
Entry(name, type, size) == [name |-> name, type |-> type, size |-> size]

\* What sandbox.runCode resolves with: execution.error (name + ": " + value,
\* "" for none), the logs, the results and the entries the code left behind.
Execution(error, stdout, stderr, results, entries) ==
  [error |-> error, stdout |-> stdout, stderr |-> stderr, results |-> results,
   entries |-> entries]
NoExecution == Execution("", "", "", <<>>, <<>>)

GeneratedFile(name, size, richPreview) ==
  [name |-> name, size |-> size, richPreview |-> richPreview]

\* The JSON a route answers with.
RouteResponse(status, type, code, execution, results, generatedFiles, error) ==
  [status |-> status, type |-> type, code |-> code, stdout |-> execution.stdout,
   stderr |-> execution.stderr, results |-> results,
   generatedFiles |-> generatedFiles, error |-> error]
NoResponse == RouteResponse(0, "none", "", NoExecution, <<>>, <<>>, "")
BadRequest(error) == RouteResponse(400, "error", "", NoExecution, <<>>, <<>>, error)

NoSandbox == 0

Sandbox(owner) ==
  [owner |-> owner, killed |-> FALSE, dir |-> <<>>, users |-> {}, killers |-> {},
   usedAfterKill |-> FALSE]

IdleCall ==
  [pc |-> "idle", route |-> "none", body |-> NoRouteBody, sandbox |-> NoSandbox,
   staged |-> 0, uploadedFileNames |-> {}, execution |-> NoExecution,
   results |-> <<>>, response |-> NoResponse, kills |-> 0, killFailed |-> FALSE,
   previewFailed |-> {}]

\* ---- png de-duplication of the execute route
hasPng(r) == r.png /= NoPng

fingerprintWhole(png) == png

fingerprint(png) == substring(png, 0, fingerprintLength)

RECURSIVE filterResults(_, _)
filterResults(rawResults, seenPng) ==
  IF rawResults = <<>> THEN <<>>
  ELSE LET r == Head(rawResults)
       IN IF hasPng(r) /\ fingerprint(r.png) \in seenPng
          THEN filterResults(Tail(rawResults), seenPng)
          ELSE <<r>> \o filterResults(Tail(rawResults),
                           IF hasPng(r) THEN seenPng \cup {fingerprint(r.png)}
                           ELSE seenPng)

dedupeResults(rawResults) == filterResults(rawResults, {})

\* ---- generated files of the execute route
\* A listing that filters nothing.
newFileNamesUnfiltered(entries, uploadedFileNames) ==
  [i \in 1..Len(entries) |-> entries[i].name]

RECURSIVE newFileNames(_, _)
newFileNames(entries, uploadedFileNames) ==
  IF entries = <<>> THEN <<>>
  ELSE LET e == Head(entries)
       IN (IF e.type = "file" /\ ~startsWith(e.name, ".")
              /\ e.name \notin uploadedFileNames
           THEN <<e.name>> ELSE <<>>)
          \o newFileNames(Tail(entries), uploadedFileNames)

isfile(dir, name) == \E i \in 1..Len(dir) : dir[i].name = name /\ dir[i].type = "file"

getsize(dir, name) == dir[CHOOSE i \in 1..Len(dir) : dir[i].name = name].size

fitsSingleOnly(size, total) == size <= MAX_SINGLE_FILE_SIZE

fits(size, total) ==
  size <= MAX_SINGLE_FILE_SIZE /\ total + size <= MAX_TOTAL_FILE_SIZE

\* The Python script readCode: _files after the loop over the names.
RECURSIVE readCode(_, _, _)
readCode(names, dir, total) ==
  IF names = <<>> THEN <<>>
  ELSE LET name == Head(names)
       IN IF isfile(dir, name) /\ fits(getsize(dir, name), total)
          THEN <<GeneratedFile(name, getsize(dir, name), FALSE)>>
               \o readCode(Tail(names), dir, total + getsize(dir, name))
          ELSE readCode(Tail(names), dir, total)

\* A rich-preview loop that gives up at the first preview that fails.
addRichPreviewsAbort(generatedFiles, broken) ==
  [i \in 1..Len(generatedFiles) |->
     [generatedFiles[i] EXCEPT !.richPreview =
        extOf(generatedFiles[i].name) \in previewableExts
        /\ \A j \in 1..i : generatedFiles[j].name \notin broken]]

\* The rich-preview loop: a previewable file whose preview run works gets one.
addRichPreviews(generatedFiles, broken) ==
  [i \in 1..Len(generatedFiles) |->
     [generatedFiles[i] EXCEPT !.richPreview =
        extOf(generatedFiles[i].name) \in previewableExts
        /\ generatedFiles[i].name \notin broken]]

\* sandbox.files.write: the entry of that name is created or replaced.
writeEntry(dir, e) == Append(SelectSeq(dir, LAMBDA x : x.name /= e.name), e)

RECURSIVE writeEntries(_, _)
writeEntries(dir, es) ==
  IF es = <<>> THEN dir ELSE writeEntries(writeEntry(dir, Head(es)), Tail(es))

\* ---- the sandbox a call works on
sandboxHandleShared(sandbox, latest) == latest

\* The handler's local variable `sandbox`.
sandboxHandle(sandbox, latest) == sandbox

Handle(c) == sandboxHandle(routeCalls[c].sandbox, Len(sandboxes))

\* Any operation of call c on sandbox h.
Use(sbs, h, c) ==
  [sbs EXCEPT ![h].users = @ \cup {c},
              ![h].usedAfterKill = @ \/ sbs[h].killed]

\* ---- responses
ExecuteResponse(code, execution, results, generatedFiles) ==
  RouteResponse(200, "code_execution", code, execution, results, generatedFiles,
                execution.error)

catchResponse(route, code, errMsg) ==
  IF route = "execute"
  THEN RouteResponse(200, "code_execution_error", code, NoExecution, <<>>, <<>>, errMsg)
  ELSE RouteResponse(500, "preview_failed", "", NoExecution, <<>>, <<>>, errMsg)

killRethrow(response, killed) ==
  IF killed THEN response
  ELSE RouteResponse(500, "unhandled", "", NoExecution, <<>>, <<>>, "kill failed")

\* sandbox.kill().catch(() => {}) inside finally: the response stands.
killCatch(response, killed) == response

\* ---- the handlers, one action per await
ExecutePOST(c, body) ==
  /\ routeCalls[c].pc = "idle"
  /\ routeCalls' = [routeCalls EXCEPT ![c] =
       IF body.tool /= executePython
       THEN [@ EXCEPT !.route = "execute", !.body = body, !.pc = "done",
                      !.response = BadRequest("Unsupported tool")]
       ELSE IF body.code = ""
       THEN [@ EXCEPT !.route = "execute", !.body = body, !.pc = "done",
                      !.response = BadRequest("No code provided")]
       ELSE [@ EXCEPT !.route = "execute", !.body = body, !.pc = "create"]]
  /\ UNCHANGED <<chatVars, sandboxes, limitVars>>

\* The checks of the preview route without the size ceiling.
previewErrorNoSize(body) ==
  IF body.files = <<>> THEN "No file provided"
  ELSE LET file == body.files[1]
       IN IF file.name = <<>> \/ file.content = 0 THEN "No file provided"
          ELSE IF Len(file.name) > maxNameLength THEN "Invalid file name"
          ELSE IF extOf(file.name) \notin SUPPORTED_FORMATS
          THEN "Unsupported file format"
          ELSE ""

previewError(body) ==
  IF body.files = <<>> THEN "No file provided"
  ELSE LET file == body.files[1]
       IN IF file.name = <<>> \/ file.content = 0 THEN "No file provided"
          ELSE IF Len(file.name) > maxNameLength THEN "Invalid file name"
          ELSE IF file.content > MAX_FILE_SIZE THEN "File too large"
          ELSE IF extOf(file.name) \notin SUPPORTED_FORMATS
          THEN "Unsupported file format"
          ELSE ""

PreviewPOST(c, body) ==
  /\ routeCalls[c].pc = "idle"
  /\ routeCalls' = [routeCalls EXCEPT ![c] =
       IF previewError(body) /= ""
       THEN [@ EXCEPT !.route = "preview", !.body = body, !.pc = "done",
                      !.response = BadRequest(previewError(body))]
       ELSE [@ EXCEPT !.route = "preview", !.body = body, !.pc = "create"]]
  /\ UNCHANGED <<chatVars, sandboxes, limitVars>>

SandboxCreate(c) ==
  /\ routeCalls[c].pc = "create"
  /\ sandboxes' = Append(sandboxes, Sandbox(c))
  /\ routeCalls' = [routeCalls EXCEPT ![c].sandbox = Len(sandboxes) + 1, ![c].pc = "stage"]
  /\ UNCHANGED <<chatVars, limitVars>>

SandboxCreateFails(c) ==
  /\ routeCalls[c].pc = "create"
  /\ routeCalls' = [routeCalls EXCEPT
       ![c].response = catchResponse(routeCalls[c].route, routeCalls[c].body.code,
                                     "sandbox create failed"),
       ![c].pc = "finally"]
  /\ UNCHANGED <<chatVars, sandboxes, limitVars>>

\* The file the staging loop is at, and whether the loop writes it.
StagingFile(c) == routeCalls[c].body.files[routeCalls[c].staged + 1]

Staging(c) == routeCalls[c].pc = "stage" /\ routeCalls[c].staged < Len(routeCalls[c].body.files)

Written(c) ==
  routeCalls[c].route = "preview"
  \/ (StagingFile(c).name /= <<>> /\ StagingFile(c).content /= 0)

FilesWrite(c) ==
  /\ Staging(c)
  /\ IF Written(c)
     THEN /\ sandboxes' =
               [Use(sandboxes, Handle(c), c) EXCEPT ![Handle(c)].dir =
                  writeEntry(@, Entry(StagingFile(c).name, "file", StagingFile(c).content))]
          /\ routeCalls' = [routeCalls EXCEPT ![c].staged = @ + 1,
                                    ![c].uploadedFileNames = @ \cup {StagingFile(c).name}]
     ELSE /\ routeCalls' = [routeCalls EXCEPT ![c].staged = @ + 1]
          /\ UNCHANGED sandboxes
  /\ UNCHANGED <<chatVars, limitVars>>

FilesWriteFails(c) ==
  /\ Staging(c)
  /\ Written(c)
  /\ sandboxes' = Use(sandboxes, Handle(c), c)
  /\ routeCalls' = [routeCalls EXCEPT
       ![c].response = catchResponse(routeCalls[c].route, routeCalls[c].body.code, "write failed"),
       ![c].pc = "finally"]
  /\ UNCHANGED <<chatVars, limitVars>>

Staged(c) == routeCalls[c].pc = "stage" /\ routeCalls[c].staged = Len(routeCalls[c].body.files)

PreviewResponse(execution) ==
  IF execution.error /= ""
  THEN RouteResponse(200, "preview_failed", "", execution, <<>>, <<>>, execution.error)
  ELSE RouteResponse(200, "preview", "", execution, <<>>, <<>>, "")

RunCode(c, execution) ==
  /\ Staged(c)
  /\ sandboxes' = [Use(sandboxes, Handle(c), c) EXCEPT ![Handle(c)].dir =
                     writeEntries(@, execution.entries)]
  /\ routeCalls' = [routeCalls EXCEPT ![c] =
       IF routeCalls[c].route = "preview"
       THEN [@ EXCEPT !.execution = execution, !.pc = "finally",
                      !.response = PreviewResponse(execution)]
       ELSE IF execution.error /= ""
       THEN [@ EXCEPT !.execution = execution,
                      !.results = dedupeResults(execution.results),
                      !.pc = "finally",
                      !.response = ExecuteResponse(routeCalls[c].body.code, execution,
                                     dedupeResults(execution.results), <<>>)]
       ELSE [@ EXCEPT !.execution = execution,
                      !.results = dedupeResults(execution.results),
                      !.pc = "discover"]]
  /\ UNCHANGED <<chatVars, limitVars>>

RunCodeFails(c) ==
  /\ Staged(c)
  /\ sandboxes' = Use(sandboxes, Handle(c), c)
  /\ routeCalls' = [routeCalls EXCEPT
       ![c].response = catchResponse(routeCalls[c].route, routeCalls[c].body.code, "run failed"),
       ![c].pc = "finally"]
  /\ UNCHANGED <<chatVars, limitVars>>

\* sandbox.files.list, the readCode run and the rich-preview runs.
Discover(c, broken) ==
  /\ routeCalls[c].pc = "discover"
  /\ sandboxes' = Use(sandboxes, Handle(c), c)
  /\ LET dir == sandboxes[Handle(c)].dir
         parsedFiles == readCode(newFileNames(dir, routeCalls[c].uploadedFileNames), dir, 0)
         generatedFiles == addRichPreviews(parsedFiles, broken)
     IN routeCalls' = [routeCalls EXCEPT
          ![c].response = ExecuteResponse(routeCalls[c].body.code, routeCalls[c].execution,
                                          routeCalls[c].results, generatedFiles),
          ![c].previewFailed =
             {parsedFiles[i].name : i \in {k \in 1..Len(parsedFiles) :
                                             parsedFiles[k].name \in broken}},
          ![c].pc = "finally"]
  /\ UNCHANGED <<chatVars, limitVars>>

\* Discovery throws (list, the readCode run, JSON.parse): generatedFiles stays [].
DiscoverFails(c) ==
  /\ routeCalls[c].pc = "discover"
  /\ sandboxes' = Use(sandboxes, Handle(c), c)
  /\ routeCalls' = [routeCalls EXCEPT
       ![c].response = ExecuteResponse(routeCalls[c].body.code, routeCalls[c].execution,
                                       routeCalls[c].results, <<>>),
       ![c].pc = "finally"]
  /\ UNCHANGED <<chatVars, limitVars>>

hasSandboxNever(sandbox) == FALSE

\* if (sandbox)
hasSandbox(sandbox) == sandbox /= NoSandbox

\* finally { if (sandbox) await sandbox.kill().catch(() => {}) }
Kill(c, killed) ==
  /\ routeCalls[c].pc = "finally"
  /\ hasSandbox(Handle(c))
  /\ sandboxes' = [sandboxes EXCEPT ![Handle(c)].killed = @ \/ killed,
                                    ![Handle(c)].killers = @ \cup {c},
                                    ![Handle(c)].usedAfterKill = @ \/ sandboxes[Handle(c)].killed]
  /\ routeCalls' = [routeCalls EXCEPT ![c].kills = @ + 1,
                            ![c].killFailed = ~killed,
                            ![c].response = killCatch(@, killed),
                            ![c].pc = "done"]
  /\ UNCHANGED <<chatVars, limitVars>>

FinallyNoSandbox(c) ==
  /\ routeCalls[c].pc = "finally"
  /\ ~hasSandbox(Handle(c))
  /\ routeCalls' = [routeCalls EXCEPT ![c].pc = "done"]
  /\ UNCHANGED <<chatVars, sandboxes, limitVars>>

\* ---- inputs of the route specifications
DataCsv == <<"d",".","c","s","v">>
DataUpper == <<"d",".","C","S","V">>
ToolExe == <<"t",".","e","x","e">>
OutCsv == <<"o",".","c","s","v">>
PlotCsv == <<"p",".","c","s","v">>
DotCache == <<".","c">>
SubDir == <<"s","u","b">>
LongName == Pad(maxNameLength + 1, "n") \o <<".","c","s","v">>

Digits == <<"1","2","3","4","5","6","7","8","9">>
GenName(i) == <<"f", Digits[i]>>

ExecuteBodies ==
  { RouteBody("other_tool", "code1", <<>>),
    RouteBody(executePython, "", <<>>),
    RouteBody(executePython, "code1", <<>>),
    RouteBody(executePython, "code1", <<RouteFile(DataCsv, 10)>>),
    RouteBody(executePython, "code1", <<RouteFile(DataCsv, 0)>>) }

PreviewBodies ==
  { RouteBody("", "", <<>>),
    RouteBody("", "", <<RouteFile(DataCsv, 0)>>),
    RouteBody("", "", <<RouteFile(LongName, 10)>>),
    RouteBody("", "", <<RouteFile(DataCsv, MAX_FILE_SIZE + 1)>>),
    RouteBody("", "", <<RouteFile(ToolExe, 10)>>),
    RouteBody("", "", <<RouteFile(DataUpper, MAX_FILE_SIZE)>>) }

PngA1 == Pad(fingerprintLength, "A") \o <<"x">>
PngA2 == Pad(fingerprintLength, "A") \o <<"y">>
PngA == Pad(fingerprintLength, "A")
PngAlmost == Pad(fingerprintLength - 1, "A") \o <<"x">>
PngShort == <<"A", "A">>
Pngs == {NoPng, PngA1, PngA2, PngA, PngAlmost, PngShort}

RouteExecutions ==
  { Execution("", "out", "", <<>>, <<>>),
    Execution("NameError: x", "", "trace", <<ExecResult("t", PngShort)>>,
              <<Entry(OutCsv, "file", 10)>>),
    Execution("", "out", "", <<ExecResult("t", PngShort), ExecResult("t", PngShort)>>,
              <<Entry(OutCsv, "file", 10)>>),
    Execution("", "out", "warn", <<ExecResult("t", NoPng)>>,
              <<Entry(DotCache, "file", 1), Entry(SubDir, "dir", 0),
                Entry(DataCsv, "file", 12), Entry(OutCsv, "file", 10),
                Entry(PlotCsv, "file", 10), Entry(ToolExe, "file", 10)>>) }

BrokenPreviews == {{}, {OutCsv}}

ResultLists ==
  UNION { { [i \in 1..k |-> ExecResult("t", pngs[i])] : pngs \in [1..k -> Pngs] }
          : k \in 0..MaxResults }

FileSizes == {1, MAX_SINGLE_FILE_SIZE, MAX_SINGLE_FILE_SIZE + 1}

EntryLists ==
  UNION { { [i \in 1..k |-> Entry(GenName(i), "file", sizes[i])] : sizes \in [1..k -> FileSizes] }
          : k \in 0..MaxEntries }

WideExecutions ==
  { Execution("", "", "", rs, <<>>) : rs \in ResultLists }
  \cup { Execution("", "", "", <<>>, es) : es \in EntryLists }

\* ======================================================================
\* Rate limiter of POST /api/chat
\* ======================================================================
MaxRequests == 32    \* requests per run
MaxTicks == 2        \* clock advances per run

RATE_LIMIT_WINDOW == 60000
RATE_LIMIT_MAX == 30

\* x-forwarded-for of a request ("" when the header is absent).
Headers == {"", "10.0.0.1"}

clientIp(header) == IF header = "" THEN "unknown" ELSE header

Ips == {clientIp(h) : h \in Headers}

RateRecord(count, resetTime) == [count |-> count, resetTime |-> resetTime]
NoRecord == RateRecord(0, -1)

checkRateLimitOffByOne(record, t) ==
  IF record = NoRecord \/ t > record.resetTime
  THEN [ok |-> TRUE, record |-> RateRecord(1, t + RATE_LIMIT_WINDOW)]
  ELSE IF record.count > RATE_LIMIT_MAX
  THEN [ok |-> FALSE, record |-> record]
  ELSE [ok |-> TRUE, record |-> RateRecord(record.count + 1, record.resetTime)]

\* checkRateLimit(ip) on the entry of ip at time t: the verdict and the entry after.
checkRateLimit(record, t) ==
  IF record = NoRecord \/ t > record.resetTime
  THEN [ok |-> TRUE, record |-> RateRecord(1, t + RATE_LIMIT_WINDOW)]
  ELSE IF record.count >= RATE_LIMIT_MAX
  THEN [ok |-> FALSE, record |-> record]
  ELSE [ok |-> TRUE, record |-> RateRecord(record.count + 1, record.resetTime)]

\* What the route did with a request: its status and whether createGraph ran.
ChatResponse(ip, status, graph, content) ==
  [ip |-> ip, status |-> status, graph |-> graph, content |-> content]

\* ---- the JSON values of a request body: kind is what typeof and
\* Array.isArray tell apart, val the characters, number, truth value, items
\* or fields.
J(kind, val) == [kind |-> kind, val |-> val]
JUndefined == J("undefined", <<>>)
JNull == J("null", <<>>)
JString(chars) == J("string", chars)
JNumber(n) == J("number", n)
JBool(b) == J("boolean", b)
JArray(items) == J("array", items)
JObject(fields) == J("object", fields)

\* An object with the keys role and content.
JMessage(role, content) == JObject([role |-> role, content |-> content])

\* !v is false.
truthy(v) ==
  CASE v.kind \in {"undefined", "null"} -> FALSE
    [] v.kind = "string" -> Len(v.val) > 0
    [] v.kind = "number" -> v.val /= 0
    [] v.kind = "boolean" -> v.val
    [] OTHER -> TRUE

isArray(v) == v.kind = "array"

\* m.role, m.content of an entry (undefined on a value without that key).
field(msg, key) ==
  IF msg.kind = "object" /\ key \in DOMAIN msg.val THEN msg.val[key] ELSE JUndefined

maxMessages == 100
maxContentLength == 50000

\* The body of the for loop of validateInput: the error of one entry, "" for none.
messageError(msg) ==
  IF msg.kind \notin {"object", "array"} THEN "Invalid message format"
  ELSE IF field(msg, "role").kind /= "string" \/ field(msg, "content").kind /= "string"
  THEN "Each message must have role and content"
  ELSE IF Len(field(msg, "content").val) > maxContentLength
  THEN "Message content too long (max 50KB)"
  ELSE ""

\* files && !Array.isArray(files)
filesRejected(files) == truthy(files) /\ ~isArray(files)

validateInput(msgs, files, toolResult) ==
  IF ~isArray(msgs) THEN "Messages must be an array"
  ELSE IF Len(msgs.val) = 0 /\ ~truthy(toolResult)
  THEN "At least one message is required"
  ELSE IF Len(msgs.val) > maxMessages THEN "Too many messages (max 100)"
  ELSE IF \E i \in 1..Len(msgs.val) : messageError(msgs.val[i]) /= ""
  THEN LET first == CHOOSE i \in 1..Len(msgs.val) :
                      /\ messageError(msgs.val[i]) /= ""
                      /\ \A j \in 1..(i - 1) : messageError(msgs.val[j]) = ""
       IN messageError(msgs.val[first])
  ELSE IF filesRejected(files) THEN "Files must be an array"
  ELSE ""

\* A request body: whether req.json() parses it, and its fields.
ChatRequest(parses, msgs, files, toolResult) ==
  [parses |-> parses, messages |-> msgs, files |-> files, toolResult |-> toolResult]

UserMessage == JMessage(JString(<<"u">>), JString(<<"h", "i">>))

PlainRequest == ChatRequest(TRUE, JArray(<<UserMessage>>), JUndefined, JUndefined)
BrokenRequest == ChatRequest(FALSE, JUndefined, JUndefined, JUndefined)

\* What POST answers once the limiter admitted the request.
admittedResponse(ip, body) ==
  IF ~body.parses THEN ChatResponse(ip, 400, FALSE, <<"Invalid JSON in request body">>)
  ELSE IF validateInput(body.messages, body.files, body.toolResult) /= ""
  THEN ChatResponse(ip, 400, FALSE,
         <<"Validation error: ", validateInput(body.messages, body.files, body.toolResult)>>)
  ELSE ChatResponse(ip, 200, TRUE, <<>>)

\* History: per ip the start of the window of its last admitted request and the
\* requests admitted since; the last response; the ip last rejected ("" if none);
\* requests and ticks so far.
Window(start, admitted) == [start |-> start, admitted |-> admitted]
NoWindow == Window(-1, 0)

admit(w, t) ==
  IF w = NoWindow \/ t > w.start + RATE_LIMIT_WINDOW
  THEN Window(t, 1) ELSE Window(w.start, w.admitted + 1)

EmptyLog ==
  [windows |-> [ip \in Ips |-> NoWindow], last |-> ChatResponse("", 0, FALSE, <<>>),
   body |-> BrokenRequest,
   served |-> 0, rejected |-> "", ticks |-> 0]

\* POST of /api/chat up to createGraph.
ChatPOST(header, body) ==
  LET ip == clientIp(header)
      r == checkRateLimit(requestCounts[ip], now)
  IN /\ chatLog.served < MaxRequests
     /\ requestCounts' = [requestCounts EXCEPT ![ip] = r.record]
     /\ chatLog' = [chatLog EXCEPT
          !.served = @ + 1,
          !.rejected = IF r.ok THEN @ ELSE ip,
          !.windows[ip] = IF r.ok THEN admit(@, now) ELSE @,
          !.body = body,
          !.last = IF ~r.ok THEN ChatResponse(ip, 429, FALSE, <<"Rate limit exceeded">>)
                   ELSE admittedResponse(ip, body)]
     /\ UNCHANGED <<now, dataset, wire, chatVars, sandboxVars>>

TickSteps == {1, RATE_LIMIT_WINDOW}

Tick(d) ==
  /\ chatLog.ticks < MaxTicks
  /\ now' = now + d
  /\ chatLog' = [chatLog EXCEPT !.ticks = @ + 1]
  /\ UNCHANGED <<requestCounts, dataset, wire, chatVars, sandboxVars>>

\* ------------------------------------------------ dataset classification
\* Column names are sequences of characters; a pattern is the set of its
\* alternatives (the alternatives in Chinese are left out: no name of the
\* model holds their characters).
DATETIME_PATTERNS ==
  { <<"d","a","t","e">>, <<"t","i","m","e">>, <<"t","i","m","e","s","t","a","m","p">>, <<"d","a","t","e","t","i","m","e">>, <<"c","r","e","a","t","e","d">>, <<"u","p","d","a","t","e","d">>, <<"y","e","a","r">>, <<"m","o","n","t","h">>, <<"d","a","y">> }
GEO_PATTERNS ==
  { <<"l","a","t","i","t","u","d","e">>, <<"l","o","n","g","i","t","u","d","e">>, <<"l","a","t">>, <<"l","n","g">>, <<"l","o","n">>, <<"g","e","o">>, <<"c","o","o","r","d">>, <<"a","d","d","r","e","s","s">>, <<"c","i","t","y">>, <<"p","r","o","v","i","n","c","e">>, <<"c","o","u","n","t","r","y">>, <<"r","e","g","i","o","n">> }
TEXT_PATTERNS ==
  { <<"d","e","s","c","r","i","p","t","i","o","n">>, <<"d","e","s","c">>, <<"c","o","m","m","e","n","t">>, <<"r","e","v","i","e","w">>, <<"t","e","x","t">>, <<"b","o","d","y">>, <<"c","o","n","t","e","n","t">>, <<"a","b","s","t","r","a","c","t">>, <<"s","u","m","m","a","r","y">>, <<"t","i","t","l","e">> }
AMOUNT_PATTERNS ==
  { <<"a","m","o","u","n","t">>, <<"p","r","i","c","e">>, <<"c","o","s","t">>, <<"r","e","v","e","n","u","e">>, <<"s","a","l","a","r","y">>, <<"v","a","l","u","e">>, <<"t","o","t","a","l">>, <<"s","u","m">> }

NUMERIC_DTYPES ==
  { "int64", "int32", "int16", "int8", "float64", "float32", "float16",
    "uint8", "uint16", "uint32", "uint64", "Int64", "Int32", "Float64", "Float32" }
DATETIME_DTYPES ==
  { "datetime64[ns]", "datetime64", "datetime64[ns, UTC]", "datetime64[us]", "datetime64[ms]" }
CATEGORICAL_DTYPES == { "object", "category", "string", "bool" }

\* s.includes(p)
includes(s, p) == \E i \in 0..(Len(s) - Len(p)) : SubSeq(s, i + 1, i + Len(p)) = p

endsWith(s, p) == Len(s) >= Len(p) /\ SubSeq(s, Len(s) - Len(p) + 1, Len(s)) = p

\* pattern.test(col) for a pattern without anchors, case ignored.
test(pattern, col) == \E p \in pattern : includes(toLowerCase(col), p)

\* ID_PATTERNS.test(col): /^id$|_id$|^uid$|^key$|^index$|code/i
testId(col) ==
  LET c == toLowerCase(col) IN
  \/ c \in { <<"i","d">>, <<"u","i","d">>, <<"k","e","y">>, <<"i","n","d","e","x">> }
  \/ endsWith(c, <<"_","i","d">>)
  \/ includes(c, <<"c","o","d","e">>)

\* richPreview: columns in order, dtypes and null_counts keyed by column.
RichPreview(columns, dtypes, null_counts, rows) ==
  [columns |-> columns, dtypes |-> dtypes, null_counts |-> null_counts,
   shape |-> <<rows, Len(columns)>>]

\* dtypes[col] || "object"
dtypeOf(rp, col) ==
  IF col \in DOMAIN rp.dtypes /\ rp.dtypes[col] /= "" THEN rp.dtypes[col] ELSE "object"

\* cols.filter(...) in order.
colsWhere(cols, Test(_)) == SelectSeq(cols, Test)

RECURSIVE SumOver(_, _)
SumOver(f, keys) ==
  IF keys = {} THEN 0
  ELSE LET k == CHOOSE x \in keys : TRUE IN f[k] + SumOver(f, keys \ {k})

Strategy(name, priority) == [name |-> name, priority |-> priority]

\* A descending sort that puts a strategy before those of its own priority.
sortByPriorityUnstable(strategies) ==
  LET RECURSIVE insert(_, _)
      insert(sorted, x) ==
        IF sorted = <<>> THEN <<x>>
        ELSE IF Head(sorted).priority > x.priority
             THEN <<Head(sorted)>> \o insert(Tail(sorted), x)
             ELSE <<x>> \o sorted
      RECURSIVE run(_, _)
      run(sorted, rest) ==
        IF rest = <<>> THEN sorted ELSE run(insert(sorted, Head(rest)), Tail(rest))
  IN run(<<>>, strategies)

\* strategies.sort((a, b) => b.priority - a.priority): stable, descending.
sortByPriority(strategies) ==
  LET RECURSIVE insert(_, _)
      insert(sorted, x) ==
        IF sorted = <<>> THEN <<x>>
        ELSE IF Head(sorted).priority >= x.priority
             THEN <<Head(sorted)>> \o insert(Tail(sorted), x)
             ELSE <<x>> \o sorted
      RECURSIVE run(_, _)
      run(sorted, rest) ==
        IF rest = <<>> THEN sorted ELSE run(insert(sorted, Head(rest)), Tail(rest))
  IN run(<<>>, strategies)

\* The strategies are named here by what they are: eda, missing_data,
\* time_series, correlation, grouping, dimensionality_reduction, clustering,
\* text, geospatial, transactional, distribution.
selectStrategies(profile, ctx) ==
  sortByPriority(
    <<Strategy("eda", 10)>>
    \o (IF profile.hasMissingData THEN <<Strategy("missing_data", 9)>> ELSE <<>>)
    \o (IF profile.category = "time_series" \/ profile.hasDatetime
        THEN <<Strategy("time_series", 9)>> ELSE <<>>)
    \o (IF ctx.numericCount >= 3 THEN <<Strategy("correlation", 8)>> ELSE <<>>)
    \o (IF ctx.categoricalCount >= 1 /\ ctx.numericCount >= 1
        THEN <<Strategy("grouping", 7)>> ELSE <<>>)
    \o (IF "high_dimensional" \in profile.tags \/ ctx.numericCount > 10
        THEN <<Strategy("dimensionality_reduction", 7)>> ELSE <<>>)
    \o (IF ctx.numericCount >= 3 /\ ctx.categoricalCount <= ctx.numericCount
        THEN <<Strategy("clustering", 6)>> ELSE <<>>)
    \o (IF profile.hasText \/ profile.category = "text_heavy"
        THEN <<Strategy("text", 7)>> ELSE <<>>)
    \o (IF "geospatial" \in profile.tags THEN <<Strategy("geospatial", 7)>> ELSE <<>>)
    \o (IF "transactional" \in profile.tags THEN <<Strategy("transactional", 8)>> ELSE <<>>)
    \o (IF ctx.numericCount >= 2 THEN <<Strategy("distribution", 5)>> ELSE <<>>))

\* A score the code leaves unset.
NoScore == 0

\* numericRatio > 0.3
crossSectional(totalCols, numericCount) == 10 * numericCount > 3 * totalCols

\* A weaker signal that asks for no numeric column.
weakTimeSeriesAny(hasDatetime, numericCount) == hasDatetime

\* hasDatetime && numericCount >= 2
weakTimeSeries(hasDatetime, numericCount) == hasDatetime /\ numericCount >= 2

\* A signal that takes a single amount column only.
transactionalSignalOne(amounts, ids, hasDatetime) == amounts = 1 /\ ids > 0 /\ hasDatetime

\* amountCols.length > 0 && idCols.length > 0 && hasDatetime
transactionalSignal(amounts, ids, hasDatetime) == amounts > 0 /\ ids > 0 /\ hasDatetime

\* The scores, each multiplied by the number of columns so that the ratios
\* stay whole numbers: numericRatio > 0.5 is 2 * numericCount > totalCols.
scoresOf(totalCols, numericCount, categoricalCount, hasDatetime, texts, geos, ids, amounts) ==
  [ time_series |->
      IF hasDatetime /\ 2 * numericCount > totalCols THEN 3 * totalCols + 2 * numericCount
      ELSE IF weakTimeSeries(hasDatetime, numericCount) THEN 2 * totalCols
      ELSE NoScore,
    text_heavy |->
      IF texts >= 3 THEN 5 * totalCols
      ELSE IF texts >= 2 THEN 3 * totalCols + categoricalCount
      ELSE IF texts = 1 /\ 2 * categoricalCount > totalCols THEN 2 * totalCols
      ELSE NoScore,
    geospatial |-> IF geos >= 2 THEN 4 * totalCols ELSE NoScore,
    transactional |->
      IF transactionalSignal(amounts, ids, hasDatetime)
      THEN (4 + (IF amounts > 1 THEN 1 ELSE 0)) * totalCols
      ELSE NoScore,
    high_dimensional |->
      IF totalCols > 30 /\ 10 * numericCount > 7 * totalCols THEN 5 * totalCols
      ELSE IF totalCols > 15 /\ 10 * numericCount > 8 * totalCols THEN 3 * totalCols
      ELSE NoScore,
    cross_sectional |-> IF crossSectional(totalCols, numericCount) THEN totalCols ELSE NoScore ]

\* Object.entries(scores) in insertion order.
Categories ==
  <<"time_series", "text_heavy", "geospatial", "transactional", "high_dimensional",
    "cross_sectional">>

\* A winner that keeps the last of the equal scores.
pickCategoryLast(scores) ==
  LET best == CHOOSE i \in 1..Len(Categories) :
                /\ \A j \in 1..Len(Categories) : scores[Categories[j]] <= scores[Categories[i]]
                /\ \A j \in (i + 1)..Len(Categories) : scores[Categories[j]] < scores[Categories[i]]
  IN IF scores[Categories[best]] > 0 THEN Categories[best] ELSE "general"

\* for (const [cat, score] of entries) if (score > maxScore) ...: the first
\* of the highest scores, general when there is none.
pickCategory(scores) ==
  LET best == CHOOSE i \in 1..Len(Categories) :
                /\ \A j \in 1..Len(Categories) : scores[Categories[j]] <= scores[Categories[i]]
                /\ \A j \in 1..(i - 1) : scores[Categories[j]] < scores[Categories[i]]
  IN IF scores[Categories[best]] > 0 THEN Categories[best] ELSE "general"

NoClassification == [profile |-> <<>>, strategies |-> <<>>]

classifyDataset(rp) ==
  IF Len(rp.columns) = 0 THEN NoClassification
  ELSE
  LET cols == rp.columns
      totalCols == Len(cols)
      totalRows == rp.shape[1]
      numericCount == Len(colsWhere(cols, LAMBDA c : dtypeOf(rp, c) \in NUMERIC_DTYPES))
      categoricalCount ==
        Len(colsWhere(cols, LAMBDA c : /\ dtypeOf(rp, c) \notin NUMERIC_DTYPES
                                       /\ dtypeOf(rp, c) \notin DATETIME_DTYPES
                                       /\ dtypeOf(rp, c) \in CATEGORICAL_DTYPES))
      datetimeCols ==
        colsWhere(cols, LAMBDA c : \/ /\ dtypeOf(rp, c) \notin NUMERIC_DTYPES
                                      /\ dtypeOf(rp, c) \in DATETIME_DTYPES
                                   \/ test(DATETIME_PATTERNS, c))
      geoCols == colsWhere(cols, LAMBDA c : test(GEO_PATTERNS, c))
      textLikelyCols == colsWhere(cols, LAMBDA c : test(TEXT_PATTERNS, c))
      idCols == colsWhere(cols, testId)
      amountCols == colsWhere(cols, LAMBDA c : test(AMOUNT_PATTERNS, c))
      hasDatetime == Len(datetimeCols) > 0
      hasText == Len(textLikelyCols) > 0
      totalNulls == SumOver(rp.null_counts, DOMAIN rp.null_counts)
      hasMissingData == totalNulls > 0 /\ 100 * totalNulls > totalRows * totalCols
      scores == scoresOf(totalCols, numericCount, categoricalCount, hasDatetime,
                         Len(textLikelyCols), Len(geoCols), Len(idCols), Len(amountCols))
      category == pickCategory(scores)
      tags ==
           (IF hasDatetime THEN {"temporal"} ELSE {})
        \cup (IF Len(geoCols) >= 2 THEN {"geospatial"} ELSE {})
        \cup (IF Len(textLikelyCols) >= 1 THEN {"text"} ELSE {})
        \cup (IF transactionalSignal(Len(amountCols), Len(idCols), hasDatetime)
              THEN {"transactional"} ELSE {})
        \cup (IF totalCols > 15 /\ 10 * numericCount > 7 * totalCols
              THEN {"high_dimensional"} ELSE {})
        \cup (IF hasMissingData THEN {"missing_data"} ELSE {})
        \cup (IF 10 * numericCount > 6 * totalCols THEN {"numeric_heavy"} ELSE {})
        \cup (IF 10 * categoricalCount > 6 * totalCols THEN {"categorical_heavy"} ELSE {})
      profile ==
        [category |-> category, tags |-> tags, hasDatetime |-> hasDatetime,
         hasText |-> hasText, hasMissingData |-> hasMissingData,
         rowCount |-> totalRows, colCount |-> totalCols]
      ctx == [numericCount |-> numericCount, categoricalCount |-> categoricalCount]
  IN [profile |-> profile, strategies |-> selectStrategies(profile, ctx)]

\* ---- a preview put together column by column, then classified.
MaxNamed == 5       \* named columns of a preview
MaxNamedWide == 3   \* named columns of a preview that has filler columns
MaxFiller == 31     \* further columns of one dtype

ColumnNames ==
  << <<"d","a","t","e">>, <<"r","e","v","e","n","u","e">>, <<"r","e","g","i","o","n">>, <<"o","r","d","e","r","_","i","d">>, <<"p","r","i","c","e">>, <<"t","o","t","a","l">>, <<"l","a","t">> >>

Dtypes == {"float64", "datetime64[ns]", "object"}

previewRows == 500

EmptyPreview == RichPreview(<<>>, <<>>, <<>>, previewRows)

NoDataset == [rp |-> EmptyPreview, named |-> 0, result |-> NoClassification, classified |-> FALSE]

\* The k-th filler column: xqq, xqw, ..., a name no pattern matches.
FillerLetters == <<"q", "w", "z", "j", "k", "v">>

Filler(k) == <<"x", FillerLetters[((k - 1) \div 6) + 1], FillerLetters[((k - 1) % 6) + 1]>>

\* n columns of one dtype in front of the named ones.
addFiller(n, dtype) ==
  /\ dataset.rp.columns = <<>> /\ ~dataset.classified
  /\ dataset' = [dataset EXCEPT
       !.rp = RichPreview([k \in 1..n |-> Filler(k)],
                          [c \in {Filler(k) : k \in 1..n} |-> dtype],
                          [c \in {Filler(k) : k \in 1..n} |-> 0], previewRows)]
  /\ UNCHANGED <<chatVars, sandboxVars, requestCounts, now, chatLog, wire>>

\* The next column of the file, its dtype and its count of nulls.
addColumn(i, dtype, nulls) ==
  /\ ~dataset.classified
  /\ i > dataset.named
  /\ LET namedCols == SelectSeq(dataset.rp.columns,
                                 LAMBDA c : \E k \in 1..Len(ColumnNames) : c = ColumnNames[k])
     IN Len(namedCols) < (IF Len(namedCols) < Len(dataset.rp.columns)
                          THEN MaxNamedWide ELSE MaxNamed)
  /\ LET rp == dataset.rp
         col == ColumnNames[i]
         keys == DOMAIN rp.dtypes \cup {col}
     IN dataset' = [dataset EXCEPT
          !.named = i,
          !.rp = RichPreview(Append(rp.columns, col),
                   [c \in keys |-> IF c = col THEN dtype ELSE rp.dtypes[c]],
                   [c \in keys |-> IF c = col THEN nulls ELSE rp.null_counts[c]],
                   previewRows)]
  /\ UNCHANGED <<chatVars, sandboxVars, requestCounts, now, chatLog, wire>>

classify ==
  /\ ~dataset.classified
  /\ dataset' = [dataset EXCEPT !.result = classifyDataset(dataset.rp), !.classified = TRUE]
  /\ UNCHANGED <<chatVars, sandboxVars, requestCounts, now, chatLog, wire>>

\* ------------------------------------------- the bytes of a response body
MaxFrames == 3       \* frames the server writes per run

\* The contents of the text_delta frames.
FrameContents == {"a", "b"}

\* "data: "
DataPrefix == <<"d", "a", "t", "a", ":", " ">>

\* JSON.stringify({type: "text_delta", content}): one line, no raw newline.
stringify(content) == <<"{", content, "}">>

\* encoder.encode(`data: ${JSON.stringify(frame)}\n\n`)
encode(content) == DataPrefix \o stringify(content) \o <<"\n", "\n">>

\* text.split("\n")
RECURSIVE split(_)
split(text) ==
  IF \E i \in 1..Len(text) : text[i] = "\n"
  THEN LET i == CHOOSE j \in 1..Len(text) :
                  text[j] = "\n" /\ \A k \in 1..(j - 1) : text[k] # "\n"
       IN <<SubSeq(text, 1, i - 1)>> \o split(SubSeq(text, i + 1, Len(text)))
  ELSE <<text>>

\* line.startsWith(prefix)
lineStartsWith(line, prefix) ==
  Len(line) >= Len(prefix) /\ SubSeq(line, 1, Len(prefix)) = prefix

\* str.trim()
RECURSIVE trim(_)
trim(str) ==
  IF Len(str) > 0 /\ str[1] = " " THEN trim(Tail(str))
  ELSE IF Len(str) > 0 /\ str[Len(str)] = " " THEN trim(SubSeq(str, 1, Len(str) - 1))
  ELSE str

\* JSON.parse(jsonStr) returns (it throws on anything but a whole object).
parses(jsonStr) ==
  /\ Len(jsonStr) = 3
  /\ jsonStr[1] = "{" /\ jsonStr[3] = "}"
  /\ jsonStr[2] \in FrameContents

\* The body of the reader loop on one chunk: the contents of the frames it
\* applies, in order.  Lines without the prefix, empty payloads and payloads
\* that do not parse are skipped.
framesOf(text) ==
  LET lines == SelectSeq(split(text),
                 LAMBDA line : /\ lineStartsWith(line, DataPrefix)
                               /\ trim(SubSeq(line, 7, Len(line))) # <<>>
                               /\ parses(trim(SubSeq(line, 7, Len(line)))))
  IN [k \in 1..Len(lines) |-> trim(SubSeq(lines[k], 7, Len(lines[k])))[2]]

NoWire == [sent |-> <<>>, bytes |-> <<>>, applied |-> <<>>, closed |-> FALSE]

\* controller.enqueue of one text_delta frame.
Enqueue(content) ==
  /\ ~wire.closed /\ Len(wire.sent) < MaxFrames
  /\ wire' = [wire EXCEPT !.sent = Append(@, content), !.bytes = @ \o encode(content)]
  /\ UNCHANGED <<chatVars, sandboxVars, requestCounts, now, chatLog, dataset>>

\* controller.close()
Close ==
  /\ ~wire.closed /\ Len(wire.sent) > 0
  /\ wire' = [wire EXCEPT !.closed = TRUE]
  /\ UNCHANGED <<chatVars, sandboxVars, requestCounts, now, chatLog, dataset>>

\* reader.read() resolves with the next n bytes of the body, and the loop
\* body runs on them.
ReadChunk(n) ==
  /\ n \in 1..Len(wire.bytes)
  /\ wire' = [wire EXCEPT !.bytes = SubSeq(@, n + 1, Len(@)),
                          !.applied = @ \o framesOf(SubSeq(wire.bytes, 1, n))]
  /\ UNCHANGED <<chatVars, sandboxVars, requestCounts, now, chatLog, dataset>>

\* The sizes of the chunks a read can resolve with.
ChunkSizes == 1..(MaxFrames * Len(encode("a")))

InitWire ==
  /\ messages = <<>>
  /\ isLoading = FALSE
  /\ pendingFiles = <<>>
  /\ sessionFiles = <<>>
  /\ proc = [p \in Procs |-> IdleProc]
  /\ sandboxRuns = <<>>
  /\ nextId = 1
  /\ srv = [p \in Procs |-> IdleTurn]
  /\ routeCalls = [c \in Calls |-> IdleCall]
  /\ sandboxes = <<>>
  /\ requestCounts = [ip \in Ips |-> NoRecord]
  /\ now = 0
  /\ chatLog = EmptyLog
  /\ dataset = NoDataset
  /\ wire = NoWire

NextWire ==
  \/ \E content \in FrameContents : Enqueue(content)
  \/ Close
  \/ \E n \in ChunkSizes : ReadChunk(n)

SpecWire == InitWire /\ [][NextWire]_vars

\* The routes before their first request.
RoutesIdle ==
  /\ routeCalls = [c \in Calls |-> IdleCall]
  /\ sandboxes = <<>>
  /\ requestCounts = [ip \in Ips |-> NoRecord]
  /\ now = 0
  /\ chatLog = EmptyLog
  /\ dataset = NoDataset
  /\ wire = NoWire

ChatIdle ==
  /\ messages = <<>>
  /\ isLoading = FALSE
  /\ pendingFiles = <<>>
  /\ sessionFiles = <<>>
  /\ proc = [p \in Procs |-> IdleProc]
  /\ sandboxRuns = <<>>
  /\ nextId = 1
  /\ srv = [p \in Procs |-> IdleTurn]

\* ------------------------------------- concurrent calls of the two routes
InitRoutes == ChatIdle /\ RoutesIdle

Started(c) == IF c = 1 THEN TRUE ELSE routeCalls[c - 1].pc /= "idle"

NextRoutes ==
  \E c \in Calls :
    \/ Started(c) /\ \E body \in ExecuteBodies : ExecutePOST(c, body)
    \/ Started(c) /\ \E body \in PreviewBodies : PreviewPOST(c, body)
    \/ SandboxCreate(c)
    \/ SandboxCreateFails(c)
    \/ FilesWrite(c)
    \/ FilesWriteFails(c)
    \/ \E execution \in RouteExecutions : RunCode(c, execution)
    \/ RunCodeFails(c)
    \/ \E broken \in BrokenPreviews : Discover(c, broken)
    \/ DiscoverFails(c)
    \/ \E killed \in BOOLEAN : Kill(c, killed)
    \/ FinallyNoSandbox(c)

SpecRoutes == InitRoutes /\ [][NextRoutes]_vars

\* ------------------------------ one execute call over many run outcomes
InitExecute == ChatIdle /\ RoutesIdle

NextExecute ==
  \/ \E body \in {b \in ExecuteBodies : b.tool = executePython /\ b.code /= ""} :
       ExecutePOST(1, body)
  \/ SandboxCreate(1)
  \/ FilesWrite(1)
  \/ \E execution \in WideExecutions : RunCode(1, execution)
  \/ Discover(1, {})
  \/ Kill(1, TRUE)

SpecExecute == InitExecute /\ [][NextExecute]_vars

\* ------------------------------------------- requests to the rate limiter
InitRateLimit == ChatIdle /\ RoutesIdle

NextRateLimit ==
  \/ \E header \in Headers : \E body \in {PlainRequest, BrokenRequest} : ChatPOST(header, body)
  \/ \E d \in TickSteps : Tick(d)

SpecRateLimit == InitRateLimit /\ [][NextRateLimit]_vars


\* ---- the previews handed to classifyDataset
FillerSizes == {13, MaxFiller}
NullCounts == {0, 50}

InitDataset == ChatIdle /\ RoutesIdle

NextDataset ==
  \/ \E n \in FillerSizes : \E dtype \in {"float64", "object"} : addFiller(n, dtype)
  \/ \E i \in 1..Len(ColumnNames) : \E dtype \in Dtypes :
       \E nulls \in (IF i = 1 THEN NullCounts ELSE {0}) : addColumn(i, dtype, nulls)
  \/ classify

SpecDataset == InitDataset /\ [][NextDataset]_vars

\* ------------------------------------------- request bodies to /api/chat
MaxBodyMessages == 1     \* entries of a generated message list
MaxPosts == 2            \* requests of one run

LongContent == JString([i \in 1..(maxContentLength + 1) |-> "c"])
FullContent == JString([i \in 1..maxContentLength |-> "c"])

Entries ==
  { UserMessage, JNull, JString(<<"m">>), JObject([role |-> JString(<<"u">>)]),
    JMessage(JNumber(1), JString(<<"x">>)), JMessage(JString(<<"u">>), JNumber(1)),
    JMessage(JString(<<"u">>), LongContent), JMessage(JString(<<"u">>), FullContent),
    JMessage(JString(<<"u">>), JString(<<>>)) }

MessageValues ==
  { JUndefined, JNull, JString(<<"m">>), JObject([role |-> JString(<<"u">>)]),
    JArray([i \in 1..(maxMessages + 1) |-> UserMessage]),
    JArray([i \in 1..maxMessages |-> UserMessage]),
    JArray(<<UserMessage, UserMessage>>), JArray(<<UserMessage, JNull>>),
    JArray(<<JNull, JMessage(JString(<<"u">>), JNumber(1))>>) }
  \cup UNION { { JArray(items) : items \in [1..k -> Entries] } : k \in 0..MaxBodyMessages }

FilesValues ==
  { JUndefined, JNull, JArray(<<>>), JArray(<<JObject([name |-> JString(<<"f">>)])>>),
    JString(<<"f">>), JString(<<>>), JNumber(0), JNumber(1), JBool(FALSE), JBool(TRUE),
    JObject([name |-> JString(<<"f">>)]) }

ToolResultValues == { JUndefined, JObject([type |-> JString(<<"r">>)]) }

ValidateBodies ==
  { ChatRequest(TRUE, m, f, t) :
      m \in MessageValues, f \in FilesValues, t \in ToolResultValues }
  \cup {BrokenRequest}

InitValidate == ChatIdle /\ RoutesIdle

NextValidate ==
  /\ chatLog.served < MaxPosts
  /\ \E body \in ValidateBodies : ChatPOST("", body)

SpecValidate == InitValidate /\ [][NextValidate]_vars


\* ----------------------------------------------------------------------
\*  The whole system: the user, the hook and the turns it opens.
\* ----------------------------------------------------------------------
\* In the whole system a model call past MaxToolSteps gives a final answer.
ChatCalls == {c \in ModelCalls : \A i \in 1..Len(c) : c[i].name \in {calculateData, executePython}}

ChatOutputs == IF ToolSteps < MaxToolSteps THEN ChatCalls ELSE {<<>>}

\* A turn touches nothing but srv[p], which only p's reader reads, and it
\* needs nothing from the hook once it has its request.  So the turns are
\* scheduled ahead of the hook: the hook and the user move while no turn has
\* a step left.  Every interleaving of the hook's handlers is still present.
ServerQuiet == \A p \in Procs : srv[p].node = "idle" \/ srv[p].closed

MessageIds == {messages[i].id : i \in 1..Len(messages)}

\* The cards of a message the user can click on.
CallIndexes(id) == 1..Len(RenderedCalls(FindMessage(messages, id)))

Init ==
  /\ RoutesIdle
  /\ messages = <<>>
  /\ isLoading = FALSE
  /\ pendingFiles = <<>>
  /\ sessionFiles = <<>>
  /\ proc = [p \in Procs |-> IdleProc]
  /\ sandboxRuns = <<>>
  /\ nextId = 1
  /\ srv = [p \in Procs |-> IdleTurn]

Next ==
  \/ ServerQuiet /\ sendMessage(<<"q">>)
  \/ ServerQuiet /\ \E id \in MessageIds : \E i \in CallIndexes(id) : approveToolCall(id, i)
  \/ ServerQuiet /\ \E id \in MessageIds : \E i \in CallIndexes(id) : rejectToolCall(id, i)
  \/ \E p \in Procs :
       \/ ServerQuiet /\ POST(p)
       \/ ServerQuiet /\ ChatRequestFails(p)
       \/ \E c \in ChunkContents : ModelStream(p, c)
       \/ \E calls \in ChatOutputs : callModel(p, calls)
       \/ ModelThrow(p)
       \/ ToolEnd(p)
       \/ ToolsReturn(p)
       \/ GraphEnd(p)
       \/ ServerQuiet /\ ReadFrame(p)
       \/ ServerQuiet /\ ReadEnd(p)
       \/ ServerQuiet /\ \E r \in ExecOutcomes(IF proc[p].pc = "exec" THEN ExecuteBody(proc[p]).args ELSE "") :
            ExecuteDone(p, r)
       \/ ServerQuiet /\ ExecuteFails(p)

Spec == Init /\ [][Next]_vars

\* The steps the program takes on its own: the route handler and the graph
\* keep running, the reader loop takes every frame that arrived, a fetch
\* settles.  The user's calls and the failures are under no obligation.
ProgramStep ==
  \E p \in Procs :
    \/ ServerQuiet /\ POST(p)
    \/ \E c \in ChunkContents : ModelStream(p, c)
    \/ \E calls \in ChatOutputs : callModel(p, calls)
    \/ ToolEnd(p)
    \/ ToolsReturn(p)
    \/ GraphEnd(p)
    \/ ServerQuiet /\ ReadFrame(p)
    \/ ServerQuiet /\ ReadEnd(p)
    \/ ServerQuiet /\ \E r \in ExecOutcomes(IF proc[p].pc = "exec" THEN ExecuteBody(proc[p]).args ELSE "") :
         ExecuteDone(p, r)

SpecLive == Spec /\ WF_vars(ProgramStep)

\* ----------------------------------------------------------------------
\*  One turn of the server on its own: any request, any model behaviour.
\* ----------------------------------------------------------------------
TurnOutputs == IF ToolSteps < MaxToolSteps THEN ModelCalls ELSE LateCalls

InitTurn ==
  /\ RoutesIdle
  /\ messages = <<>>
  /\ isLoading = FALSE
  /\ pendingFiles = <<>>
  /\ sessionFiles = <<>>
  /\ proc = [p \in Procs |-> IdleProc]
  /\ sandboxRuns = <<>>
  /\ nextId = 1
  /\ srv = [p \in Procs |->
              IF p = 1 THEN StartTurn(<<LCMsg("system", <<"SYSTEM_PROMPT">>, <<>>),
                                        LCMsg("human", <<"q">>, <<>>)>>)
              ELSE IdleTurn]

NextTurn ==
  \E p \in Procs :
    \/ \E c \in ChunkContents : ModelStream(p, c)
    \/ \E calls \in TurnOutputs : callModel(p, calls)
    \/ ModelThrow(p)
    \/ ToolEnd(p)
    \/ ToolsReturn(p)
    \/ GraphRecursion(p)
    \/ GraphEnd(p)

SpecTurn == InitTurn /\ [][NextTurn]_vars

\* ----------------------------------------------------------------------
\*  The approvals of one message: the transcript after a turn that asked for
\*  two execute_python calls and has been read to its end (a state sendMessage
\*  leaves, see ApprovalsStart), every hook call still to be made.
\* ----------------------------------------------------------------------
ApprovalsStart ==
  /\ messages =
       <<Message(1, "user", <<"q">>, FALSE),
         [Message(2, "assistant", <<>>, FALSE) EXCEPT
            !.toolCalls = <<ToolCall(executePython, "code1", "pending", NoResult),
                            ToolCall(executePython, "code2", "pending", NoResult)>>,
            !.parts = <<ToolCallPart(ToolCall(executePython, "code1", "pending", NoResult)),
                        ToolCallPart(ToolCall(executePython, "code2", "pending", NoResult))>>]>>
  /\ isLoading = FALSE
  /\ pendingFiles = <<>>
  /\ sessionFiles = <<>>
  /\ nextId = 3

InitApprovals ==
  /\ RoutesIdle
  /\ ApprovalsStart
  /\ proc = [p \in Procs |-> IdleProc]
  /\ sandboxRuns = <<>>
  /\ srv = [p \in Procs |-> IdleTurn]

\* The follow-up turns answer with text, or ask for one more execute_python
\* call; every execution succeeds and generates no file.
ApprovalOutputs ==
  IF ToolSteps < MaxToolSteps THEN {<<>>, <<TC(executePython, "code3")>>} ELSE {<<>>}

ApprovalOutcome(code) == Result("code_execution", code, <<>>, "")

NextApprovals ==
  \/ ServerQuiet /\ \E id \in MessageIds : \E i \in CallIndexes(id) : approveToolCall(id, i)
  \/ ServerQuiet /\ \E id \in MessageIds : \E i \in CallIndexes(id) : rejectToolCall(id, i)
  \/ \E p \in Procs :
       \/ ServerQuiet /\ POST(p)
       \/ ModelStream(p, <<"a">>)
       \/ \E calls \in ApprovalOutputs : callModel(p, calls)
       \/ GraphEnd(p)
       \/ ServerQuiet /\ ReadFrame(p)
       \/ ServerQuiet /\ ReadEnd(p)
       \/ ServerQuiet /\ proc[p].pc = "exec"
            /\ ExecuteDone(p, ApprovalOutcome(ExecuteBody(proc[p]).args))

SpecApprovals == InitApprovals /\ [][NextApprovals]_vars

\* ----------------------------------------------------------------------
\*  The same transcript with hook calls that return: a call that has run to
\*  its end holds nothing any more, so the user can make another one.
\* ----------------------------------------------------------------------
MaxRuns == 3         \* execute requests per run

\* approveToolCall has returned: its closure is gone, the response is closed.
Return(p) ==
  /\ proc[p].pc = "done"
  /\ proc' = [proc EXCEPT ![p] = IdleProc]
  /\ srv' = [srv EXCEPT ![p] = IdleTurn]
  /\ UNCHANGED <<routeVars, messages, isLoading, pendingFiles, sessionFiles, sandboxRuns, nextId>>

\* The execute requests made so far: answered, or still open.
Requests == Len(sandboxRuns) + Cardinality({p \in Procs : proc[p].pc = "exec"})

NextRepeat ==
  \/ /\ ServerQuiet
     /\ Requests < MaxRuns
     /\ \E id \in MessageIds : \E i \in CallIndexes(id) : approveToolCall(id, i)
  \/ \E p \in Procs :
       \/ ServerQuiet /\ POST(p)
       \/ ModelStream(p, <<"a">>)
       \/ \E calls \in ApprovalOutputs : callModel(p, calls)
       \/ GraphEnd(p)
       \/ ServerQuiet /\ ReadFrame(p)
       \/ ServerQuiet /\ ReadEnd(p)
       \/ ServerQuiet /\ proc[p].pc = "exec"
            /\ ExecuteDone(p, ApprovalOutcome(ExecuteBody(proc[p]).args))
       \/ ServerQuiet /\ Return(p)

SpecRepeat == InitApprovals /\ [][NextRepeat]_vars

\* ----------------------------------------------------------------------
\*  Files of a conversation: attaching, sending, generated files.
\* ----------------------------------------------------------------------
InitFiles == ChatIdle /\ RoutesIdle

\* What the user picks in one file dialog.
Uploads ==
  { <<Upload("data.csv", TRUE)>>, <<Upload("out.csv", TRUE)>>,
    <<Upload("logo.png", FALSE), Upload("data.csv", TRUE)>> }

FileIds == 1..(MaxAttach + 2 * MaxProcs)

FilesOutputs ==
  IF ToolSteps < MaxToolSteps THEN {<<>>, <<TC(executePython, "code1")>>} ELSE {<<>>}

\* The run of the approved code leaves out.csv behind.
FilesOutcome(code) == Result("code_execution", code, <<"out.csv">>, "")

NextFiles ==
  \/ \E files \in Uploads : addFiles(files)
  \/ \E id \in FileIds : previewDone(id)
  \/ \E id \in FileIds : removeFile(id)
  \/ ServerQuiet /\ sendMessage(<<"q">>)
  \/ ServerQuiet /\ \E id \in MessageIds : \E i \in CallIndexes(id) : approveToolCall(id, i)
  \/ \E p \in Procs :
       \/ ServerQuiet /\ POST(p)
       \/ \E calls \in FilesOutputs : callModel(p, calls)
       \/ GraphEnd(p)
       \/ ServerQuiet /\ ReadFrame(p)
       \/ ServerQuiet /\ ReadEnd(p)
       \/ ServerQuiet /\ proc[p].pc = "exec"
            /\ ExecuteDone(p, FilesOutcome(ExecuteBody(proc[p]).args))

SpecFiles == InitFiles /\ [][NextFiles]_vars

\* The same conversations with the clear button, which is never disabled.
NextClear == NextFiles \/ clearMessages

SpecClear == InitFiles /\ [][NextClear]_vars

\* ======================================================================
\*  Properties
\* ======================================================================
CountType(out, t) == Cardinality({i \in 1..Len(out) : out[i].type = t})

\* The tool calls requested by the AI messages of msgs, in order.
CallsOf(msgs) == Concat([i \in 1..Len(msgs) |-> msgs[i].tool_calls])

\* The tool calls reported by the tool_call frames of a stream, in order.
ReportedCalls(out) ==
  LET fs == SelectSeq(out, LAMBDA f : f.type = "tool_call")
  IN [i \in 1..Len(fs) |-> TC(fs[i].tool, fs[i].args)]

LastIsAI(t) == Len(t.msgs) > 0 /\ Last(t.msgs).role = "ai"

\* The flat tool-call records of the message with the given id.
RecordsOf(list, id) == FindMessage(list, id).toolCalls

\* ---------------------------------------------------------------- C1
\* C1: execute_python code reaches the sandbox only through approveToolCall
\* acting on a record that is pending at that moment.  The graph never runs
\* an execute_python call; every sandbox run belongs to one approval and runs
\* the code of the record that approval took; a call enters its execute
\* request only in a step that finds the record pending and leaves it
\* approved; the sandbox runs only for a call whose execute request is open.
C1_RunsBelongToApprovals ==
  /\ \A p \in Procs : \A i \in 1..Len(srv[p].ran) : srv[p].ran[i].name # executePython
  /\ \A i \in 1..Len(sandboxRuns) :
       LET r == sandboxRuns[i] IN
       /\ proc[r.proc].kind = "approve"
       /\ proc[r.proc].pc \in {"fetch", "read", "done"}
       /\ proc[r.proc].msg.toolCalls[proc[r.proc].toolCallIndex].tool = executePython
       /\ r.code = proc[r.proc].msg.toolCalls[proc[r.proc].toolCallIndex].args
       /\ \A j \in 1..Len(sandboxRuns) : sandboxRuns[j].proc = r.proc => j = i

C1_ApprovalStep ==
  /\ \A p \in Procs :
       (proc[p].pc # "exec" /\ proc'[p].pc = "exec") =>
         LET id == proc'[p].messageId
             k == proc'[p].toolCallIndex
         IN /\ k \in 1..Len(RecordsOf(messages, id))
            /\ RecordsOf(messages, id)[k].status = "pending"
            /\ RecordsOf(messages, id)[k].tool = executePython
            /\ RecordsOf(messages', id)[k].status = "approved"
            /\ proc'[p].msg = FindMessage(messages, id)
  /\ sandboxRuns' # sandboxRuns =>
       \E p \in Procs :
         /\ proc[p].pc = "exec" /\ proc[p].kind = "approve"
         /\ sandboxRuns' = Append(sandboxRuns,
                                  [proc |-> p,
                                   code |-> proc[p].msg.toolCalls[proc[p].toolCallIndex].args,
                                   messageId |-> proc[p].messageId,
                                   toolCallIndex |-> proc[p].toolCallIndex])

C1_SandboxOnlyByApproval == []C1_RunsBelongToApprovals /\ [][C1_ApprovalStep]_vars

\* An approved record has been run while another record of the same
\* message, never approved, has not.
C1_Witness ==
  \E p \in Procs :
    /\ proc[p].kind = "approve" /\ proc[p].pc = "done"
    /\ Len(sandboxRuns) = 1 /\ sandboxRuns[1].proc = p
    /\ Len(RecordsOf(messages, proc[p].messageId)) >= 2

\* ---------------------------------------------------------------- C2
\* C2: once the last AI message of a turn requests execute_python, the graph
\* is at END, the tools node has not touched that message, and the safe
\* calls run and reported in the stream are those of the earlier AI messages
\* only.
C2_ExecutePythonHaltsTurn ==
  \A p \in Procs :
    LET t == srv[p] IN
    (LastIsAI(t) /\ hasExecutePython(Last(t.msgs).tool_calls)) =>
      /\ t.node = "END"
      /\ t.toolIdx = 0
      /\ t.ran = CallsOf(SubSeq(t.msgs, 1, Len(t.msgs) - 1))
      /\ ReportedCalls(t.out) = t.ran

\* A finished turn whose last model call asked for confirm_action together
\* with execute_python, after one round of a safe tool.
C2_Witness ==
  \E p \in Procs :
    /\ srv[p].closed
    /\ LastIsAI(srv[p])
    /\ Last(srv[p].msgs).tool_calls = <<TC(confirmAction, "act"), TC(executePython, "code1")>>
    /\ srv[p].ran = <<TC(calculateData, "1+1")>>
    /\ Last(srv[p].out).type = "done"

\* ---------------------------------------------------------------- C3
\* C3 as stated: every pending_tool_call frame is immediately followed by
\* done.
C3_PendingImmediatelyFollowedByDone ==
  \A p \in Procs :
    \A i \in 1..Len(srv[p].out) :
      srv[p].out[i].type = "pending_tool_call" =>
        /\ i < Len(srv[p].out) => srv[p].out[i + 1].type = "done"
        /\ srv[p].closed => i < Len(srv[p].out)

\* C3 amended: after a pending_tool_call frame the stream holds only further
\* pending_tool_call frames and then done; the pending frames of a stream are
\* the execute_python calls of one model call, and a closed stream that holds
\* one ends with done.
C3_PendingThenOnlyPendingAndDone ==
  \A p \in Procs :
    LET out == srv[p].out
        pend == {i \in 1..Len(out) : out[i].type = "pending_tool_call"}
    IN pend # {} =>
         /\ \A i \in pend : \A j \in (i + 1)..Len(out) :
              out[j].type \in {"pending_tool_call", "done"}
         /\ \A j \in 1..Len(out) : out[j].type = "done" => j = Len(out)
         /\ srv[p].closed => Last(out).type = "done"
         /\ LastIsAI(srv[p])
         /\ SelectSeq(out, LAMBDA f : f.type = "pending_tool_call")
              = PendingFrames(Last(srv[p].msgs).tool_calls)

\* A finished stream with two pending_tool_call frames in a row before done.
C3_Witness ==
  \E p \in Procs :
    /\ srv[p].closed
    /\ Len(srv[p].out) >= 3
    /\ srv[p].out[Len(srv[p].out) - 2].type = "pending_tool_call"
    /\ srv[p].out[Len(srv[p].out) - 1].type = "pending_tool_call"
    /\ Last(srv[p].out).type = "done"

\* ---------------------------------------------------------------- C4
\* C4: every closed stream holds exactly one done frame and it is the last
\* frame, also when the model call or the graph throws.
C4_ExactlyOneDoneLast ==
  \A p \in Procs :
    srv[p].closed =>
      /\ CountType(srv[p].out, "done") = 1
      /\ Last(srv[p].out).type = "done"

\* ---------------------------------------------------------------- C5
\* C5: a turn never takes more than recursionLimit steps; a turn closed at
\* the ceiling short of END ends with an error frame and holds no done; a
\* stream ends with done only when the graph reached END.
C5_CeilingEndsInError ==
  \A p \in Procs :
    LET t == srv[p] IN
    /\ t.steps <= recursionLimit
    /\ (t.closed /\ t.steps >= recursionLimit /\ t.node # "END") =>
         /\ Last(t.out).type = "error"
         /\ CountType(t.out, "done") = 0
    /\ (t.closed /\ Last(t.out).type = "done") => t.node = "END"

\* A turn of a model that asks for a safe tool on every step, closed at the
\* ceiling.
C5_Witness ==
  \E p \in Procs :
    /\ srv[p].closed
    /\ srv[p].steps = recursionLimit
    /\ srv[p].node # "END"
    /\ Last(srv[p].out).type = "error"
    /\ CountType(srv[p].out, "tool_call") >= 2

\* ---------------------------------------------------------------- C6
\* C6: when the model call of a turn returns no tool call, the graph is at
\* END after that single step and the stream is text_delta frames followed,
\* once closed, by exactly one done; it holds no tool_call and no
\* pending_tool_call frame.
C6_PlainAnswerTurn ==
  \A p \in Procs :
    LET t == srv[p] IN
    (LastIsAI(t) /\ CallsOf(t.msgs) = <<>>) =>
      /\ t.node = "END"
      /\ t.steps = 1
      /\ \A i \in 1..Len(t.out) :
           \/ t.out[i].type = "text_delta"
           \/ i = Len(t.out) /\ t.out[i].type = "done"
      /\ t.closed <=> (Len(t.out) > 0 /\ Last(t.out).type = "done")

\* A finished turn that streamed one chunk of text and no tool call.
C6_Witness ==
  \E p \in Procs :
    /\ srv[p].closed
    /\ LastIsAI(srv[p]) /\ CallsOf(srv[p].msgs) = <<>>
    /\ srv[p].out = <<TextDelta(<<"a">>), DoneFrame>>

\* ---------------------------------------------------------------- C7
\* C7: the status of a tool-call record moves only pending -> approved ->
\* completed or pending -> rejected, and a record that a tool_call frame
\* creates is completed from creation.
StatusMoves ==
  {<<"pending", "approved">>, <<"approved", "completed">>, <<"pending", "rejected">>}

C7_Step ==
  \A i \in 1..Len(messages) :
    i <= Len(messages') /\ messages'[i].id = messages[i].id =>
      /\ \A k \in 1..Len(messages[i].toolCalls) :
           k <= Len(messages'[i].toolCalls) =>
             \/ messages'[i].toolCalls[k].status = messages[i].toolCalls[k].status
             \/ <<messages[i].toolCalls[k].status, messages'[i].toolCalls[k].status>>
                  \in StatusMoves
      /\ \A k \in (Len(messages[i].toolCalls) + 1)..Len(messages'[i].toolCalls) :
           messages'[i].toolCalls[k].status =
             IF messages'[i].toolCalls[k].tool = executePython THEN "pending" ELSE "completed"

C7_StatusMachine == [][C7_Step]_vars

\* ---------------------------------------------------------------- C8
\* C8: a rejected record stays rejected.
C8_Step ==
  \A i \in 1..Len(messages) :
    i <= Len(messages') /\ messages'[i].id = messages[i].id =>
      \A k \in 1..Len(messages[i].toolCalls) :
        messages[i].toolCalls[k].status = "rejected" =>
          /\ k <= Len(messages'[i].toolCalls)
          /\ messages'[i].toolCalls[k].status = "rejected"

C8_RejectedIsTerminal == [][C8_Step]_vars

\* ---------------------------------------------------------------- C9
\* C9: the steps of an approval come in order.  The step that takes the
\* approval marks the record approved and opens the execute request, with no
\* sandbox run and no turn yet.  The step that receives the execution result
\* is the one sandbox run of the call; it leaves the record completed with
\* that result and the generated files in the session files, and the
\* follow-up request it prepares carries the result and those files; the
\* follow-up turn is not yet open.  The step that opens the follow-up turn
\* comes after it, and the context of that turn ends with the summary of the
\* execution result.
HasFile(files, name) == \E i \in 1..Len(files) : files[i].name = name

C9_Step ==
  \A p \in Procs :
    /\ (proc[p].pc # "exec" /\ proc'[p].pc = "exec") =>
         /\ RecordsOf(messages', proc'[p].messageId)[proc'[p].toolCallIndex].status = "approved"
         /\ sandboxRuns' = sandboxRuns
         /\ srv' = srv /\ srv[p].node = "idle"
    /\ (proc[p].pc = "exec" /\ proc'[p].pc = "fetch") =>
         LET r == proc'[p].executionResult
             rec == RecordsOf(messages', proc[p].messageId)[proc[p].toolCallIndex]
         IN /\ r # NoResult
            /\ Len(sandboxRuns') = Len(sandboxRuns) + 1
            /\ Last(sandboxRuns').proc = p
            /\ rec.status = "completed" /\ rec.result = r
            /\ \A i \in 1..Len(r.generatedFiles) :
                 /\ HasFile(sessionFiles', r.generatedFiles[i])
                 /\ HasFile(proc'[p].body.sessionFiles, r.generatedFiles[i])
            /\ proc'[p].body.toolResult = r
            /\ srv' = srv /\ srv[p].node = "idle"
    /\ (proc[p].kind = "approve" /\ srv[p].node = "idle" /\ srv'[p].node # "idle") =>
         /\ proc[p].pc = "fetch"
         /\ \E i \in 1..Len(sandboxRuns) : sandboxRuns[i].proc = p
         /\ proc[p].executionResult # NoResult
         /\ Last(srv'[p].msgs) = LCMsg("human", ToolResultSummary(proc[p].executionResult), <<>>)

C9_ApprovalOrder == [][C9_Step]_vars

\* A follow-up turn is open after an execution that generated a file: its
\* context ends with the summary naming the code and the file, and the file
\* is in the session files.
C9_Witness ==
  \E p \in Procs :
    /\ proc[p].kind = "approve" /\ proc[p].pc = "read"
    /\ proc[p].executionResult.generatedFiles = <<"out.csv">>
    /\ HasFile(sessionFiles, "out.csv")
    /\ RecordsOf(messages, proc[p].messageId)[proc[p].toolCallIndex].status = "completed"
    /\ \E i \in 1..Len(srv[p].msgs) :
         srv[p].msgs[i] = LCMsg("human", ToolResultSummary(proc[p].executionResult), <<>>)

\* ---------------------------------------------------------------- C10
\* C10: no step but sendMessage changes the number, the ids or the roles of
\* the messages; a step of an approval changes no message but the one that
\* holds its record; a rejection changes the tool-call records of one message
\* and nothing else; and each text or tool-call frame of a follow-up is
\* written into the assistant message that holds the approved record.
C10_Step ==
  nextId' = nextId =>
    /\ Len(messages') = Len(messages)
    /\ \A i \in 1..Len(messages) :
         /\ messages'[i].id = messages[i].id
         /\ messages'[i].role = messages[i].role
    /\ \A p \in Procs :
         (proc'[p] # proc[p] /\ proc'[p].kind = "approve") =>
           /\ \A i \in 1..Len(messages) :
                messages[i].id # proc'[p].messageId => messages'[i] = messages[i]
           /\ FindMessage(messages', proc'[p].messageId).role = "assistant"
           /\ (proc[p].pc = "read" /\ proc'[p].rd = proc[p].rd + 1
               /\ srv[p].out[proc'[p].rd].type \in {"text_delta", "tool_call", "pending_tool_call"}) =>
                /\ FindMessage(messages', proc'[p].messageId).parts = proc'[p].accParts
                /\ FindMessage(messages', proc'[p].messageId) # FindMessage(messages, proc'[p].messageId)
    /\ (proc' = proc /\ messages' # messages) =>
         \E i \in 1..Len(messages) :
           /\ \A j \in 1..Len(messages) : j # i => messages'[j] = messages[j]
           /\ messages'[i] = [messages[i] EXCEPT !.toolCalls = messages'[i].toolCalls]

C10_TranscriptShape == [][C10_Step]_vars

\* A follow-up has streamed text into the assistant message of the approved
\* record, after the text of the first turn, while another record of the
\* message was rejected; the transcript still is the user message and that
\* message.
C10_Witness ==
  \E p \in Procs :
    /\ proc[p].kind = "approve" /\ proc[p].pc = "read" /\ proc[p].rd >= 1
    /\ srv[p].out[1].type = "text_delta"
    /\ Len(messages) = 2
    /\ messages[2].id = proc[p].messageId
    /\ messages[2].role = "assistant"
    /\ messages[2].content = <<"a", "SEP", "a">>
    /\ Len(messages[2].parts) > 0 /\ Last(messages[2].parts).type = "text"
    /\ \E k \in 1..Len(messages[2].toolCalls) : messages[2].toolCalls[k].status = "rejected"

\* ---------------------------------------------------------------- C11
\* The tool calls of the tool_call parts of a message, in order.
ToolParts(m) ==
  LET ps == SelectSeq(m.parts, LAMBDA q : q.type = "tool_call")
  IN [i \in 1..Len(ps) |-> ps[i].toolCall]

\* C11: in every assistant message the i-th entry of toolCalls and the i-th
\* tool_call part describe the same call (same tool, same args), for every
\* index of either list.
C11_PositionalCorrespondence ==
  \A i \in 1..Len(messages) :
    messages[i].role = "assistant" =>
      /\ Len(ToolParts(messages[i])) = Len(messages[i].toolCalls)
      /\ \A k \in 1..Len(messages[i].toolCalls) :
           /\ ToolParts(messages[i])[k].tool = messages[i].toolCalls[k].tool
           /\ ToolParts(messages[i])[k].args = messages[i].toolCalls[k].args

\* ---------------------------------------------------------------- C12
\* The text of the text parts of a message, concatenated in order.
PartsText(m) ==
  Concat([k \in 1..Len(m.parts) |-> IF m.parts[k].type = "text" THEN m.parts[k].text ELSE <<>>])

\* C12: in every assistant message that has parts, the text of its text
\* parts, concatenated in order, is the content of the message.
C12_PartsTextIsContent ==
  \A i \in 1..Len(messages) :
    (messages[i].role = "assistant" /\ Len(messages[i].parts) > 0) =>
      PartsText(messages[i]) = messages[i].content

\* ---------------------------------------------------------------- C13
\* The payloads of the text_delta frames of a stream, in arrival order.
StreamText(out) ==
  Concat([k \in 1..Len(out) |-> IF out[k].type = "text_delta" THEN out[k].content ELSE <<>>])

\* The payloads of the text_delta and error frames of a stream, in order.
StreamTextAndErrors(out) ==
  Concat([k \in 1..Len(out) |->
            IF out[k].type \in {"text_delta", "error"} THEN out[k].content ELSE <<>>])

HasError(out) == \E k \in 1..Len(out) : out[k].type = "error"

\* The sendMessage calls whose stream has ended.
EndedSends == {p \in Procs : proc[p].kind = "send" /\ proc[p].pc = "done" /\ ~proc[p].failed}

Approved(id) == \E q \in Procs : proc[q].kind = "approve" /\ proc[q].messageId = id

ExecuteCalls == {c \in Calls : routeCalls[c].route = "execute"}

\* The sandboxes Sandbox.create handed to call c.
Owned(c) == {s \in 1..Len(sandboxes) : sandboxes[s].owner = c}

\* The call got past the request checks (tool, code) and ended.
Ran(c) == routeCalls[c].pc = "done" /\ routeCalls[c].response.status /= 400

\* C14 as stated: every call of the execute route that got past the request
\* checks invokes kill exactly once, also when Sandbox.create threw.
C14_KillExactlyOnce ==
  \A c \in ExecuteCalls : Ran(c) => routeCalls[c].kills = 1

\* C14 amended: a call that provisioned a sandbox invokes kill exactly once, on
\* that sandbox, however it ended (run succeeded, execution error, staging or
\* run threw); a call whose Sandbox.create threw has no sandbox, invokes kill
\* zero times and answers code_execution_error; no call kills before it ends.
C14_KillOncePerProvisionedSandbox ==
  \A c \in ExecuteCalls :
    /\ routeCalls[c].pc /= "done" => routeCalls[c].kills = 0
    /\ Ran(c) /\ Owned(c) /= {} =>
         /\ routeCalls[c].kills = 1
         /\ \A s \in Owned(c) : sandboxes[s].killers = {c}
    /\ Ran(c) /\ Owned(c) = {} =>
         /\ routeCalls[c].kills = 0
         /\ routeCalls[c].response.type = "code_execution_error"

\* A call whose staging or run threw after provisioning has ended with one kill.
C14_Witness ==
  \E c \in ExecuteCalls :
    /\ Ran(c) /\ Owned(c) /= {}
    /\ routeCalls[c].response.type = "code_execution_error"
    /\ routeCalls[c].kills = 1

\* ---------------------------------------------------------------------
\* C15  A failing kill does not change the response
\* ---------------------------------------------------------------------
C15_Step ==
  \A c \in Calls :
    routeCalls[c].pc = "finally" /\ routeCalls'[c].pc = "done" =>
      /\ routeCalls'[c].response = routeCalls[c].response
      /\ routeCalls'[c].response.type \in
           {"code_execution", "code_execution_error", "preview", "preview_failed"}

\* C15: the step that runs finally (kill succeeding or failing) leaves the
\* response computed by try or catch as it is; the caller never gets a
\* response made by a teardown error.
C15_KillFailureKeepsResponse == [][C15_Step]_vars

\* A call whose kill failed has ended with the result of its run.
C15_Witness ==
  \E c \in Calls :
    /\ routeCalls[c].pc = "done" /\ routeCalls[c].killFailed
    /\ routeCalls[c].response.type = "code_execution"
    /\ routeCalls[c].response.stdout = "out"

\* ---------------------------------------------------------------------
\* C16  Every call works on its own sandbox
\* ---------------------------------------------------------------------
\* C16: under every interleaving of execute and preview calls, a call that
\* provisioned holds the sandbox created for it; a sandbox is written, run,
\* listed and killed only by its owner, and never touched after its kill.
C16_OwnSandboxOnly ==
  /\ \A s \in 1..Len(sandboxes) :
       /\ sandboxes[s].users \subseteq {sandboxes[s].owner}
       /\ sandboxes[s].killers \subseteq {sandboxes[s].owner}
       /\ ~sandboxes[s].usedAfterKill
  /\ \A c \in Calls :
       /\ Cardinality(Owned(c)) <= 1
       /\ routeCalls[c].sandbox /= NoSandbox => Owned(c) = {routeCalls[c].sandbox}
       /\ routeCalls[c].pc \in {"stage", "discover"} => routeCalls[c].sandbox /= NoSandbox

\* An execute call and a preview call are in flight at once, each having used
\* its sandbox, the first call's sandbox killed while the second goes on.
C16_Witness ==
  \E c, d \in Calls :
    /\ routeCalls[c].route = "execute" /\ routeCalls[d].route = "preview"
    /\ routeCalls[c].pc = "done" /\ routeCalls[c].kills = 1
    /\ routeCalls[d].pc = "finally"
    /\ Owned(c) /= {} /\ Owned(d) /= {}
    /\ \A s \in Owned(c) : sandboxes[s].users = {c} /\ sandboxes[s].killed
    /\ \A s \in Owned(d) : sandboxes[s].users = {d} /\ ~sandboxes[s].killed

\* ---------------------------------------------------------------------
\* C17  Size ceilings of the generated files
\* ---------------------------------------------------------------------
RECURSIVE SumSizes(_)
SumSizes(files) == IF files = <<>> THEN 0 ELSE Head(files).size + SumSizes(Tail(files))

\* The names readCode is given, the directory it reads, the names it returned.
Candidates(c) ==
  newFileNames(sandboxes[routeCalls[c].sandbox].dir, routeCalls[c].uploadedFileNames)

DirOf(c) == sandboxes[routeCalls[c].sandbox].dir

Included(c) ==
  {routeCalls[c].response.generatedFiles[i].name :
     i \in 1..Len(routeCalls[c].response.generatedFiles)}

\* Bytes of the included files among the first k candidates.
RECURSIVE IncludedBytes(_, _)
IncludedBytes(c, k) ==
  IF k = 0 THEN 0
  ELSE (IF Candidates(c)[k] \in Included(c) THEN getsize(DirOf(c), Candidates(c)[k]) ELSE 0)
       + IncludedBytes(c, k - 1)

Discovered(c) ==
  /\ routeCalls[c].route = "execute"
  /\ routeCalls[c].response.type = "code_execution"
  /\ routeCalls[c].execution.error = ""

\* C17: every generated file of a response is at most 5MB, their sizes sum to at
\* most 20MB, and a candidate is left out exactly when it is over 5MB or would
\* take the files included before it over 20MB: a file left out adds nothing to
\* the total, so a later file that fits is included.
C17_SizeCeilings ==
  \A c \in Calls : Discovered(c) =>
    LET gf == routeCalls[c].response.generatedFiles
    IN /\ \A i \in 1..Len(gf) :
            /\ gf[i].size <= 5 * 1024 * 1024
            /\ gf[i].size = getsize(DirOf(c), gf[i].name)
       /\ SumSizes(gf) <= 20 * 1024 * 1024
       /\ \A k \in 1..Len(Candidates(c)) :
            Candidates(c)[k] \in Included(c) <=>
              /\ getsize(DirOf(c), Candidates(c)[k]) <= 5 * 1024 * 1024
              /\ IncludedBytes(c, k - 1) + getsize(DirOf(c), Candidates(c)[k])
                   <= 20 * 1024 * 1024

\* A response that left out one file for its own size and one for the total, and
\* included a file after each of them.
C17_Witness ==
  \E c \in Calls :
    /\ Discovered(c)
    /\ \E k1, k2, k3 \in 1..Len(Candidates(c)) :
         /\ k1 < k2 /\ k2 < k3
         /\ getsize(DirOf(c), Candidates(c)[k1]) > 5 * 1024 * 1024
         /\ Candidates(c)[k1] \notin Included(c)
         /\ getsize(DirOf(c), Candidates(c)[k2]) <= 5 * 1024 * 1024
         /\ Candidates(c)[k2] \notin Included(c)
         /\ Candidates(c)[k3] \in Included(c)
         /\ \E k0 \in 1..Len(Candidates(c)) :
              k1 < k0 /\ k0 < k2 /\ Candidates(c)[k0] \in Included(c)

\* ---------------------------------------------------------------------
\* C18  De-duplication of the results by png prefix
\* ---------------------------------------------------------------------
\* a and b agree on their first n characters.
SamePrefix(a, b, n) ==
  \A k \in 1..n : /\ (k <= Len(a)) = (k <= Len(b))
                  /\ k <= Len(a) /\ k <= Len(b) => a[k] = b[k]

Removed(raw, i) ==
  /\ raw[i].png /= NoPng
  /\ \E j \in 1..(i - 1) : raw[j].png /= NoPng /\ SamePrefix(raw[j].png, raw[i].png, 200)

RECURSIVE KeptFrom(_, _)
KeptFrom(raw, i) ==
  IF i > Len(raw) THEN <<>>
  ELSE (IF Removed(raw, i) THEN <<>> ELSE <<raw[i]>>) \o KeptFrom(raw, i + 1)

\* C18: the results of a response are the results of the run, in the run's
\* order, without every result whose png has the same first 200 characters as
\* the png of an earlier result; a result without png is never removed.
C18_DedupeByPngPrefix ==
  \A c \in Calls : routeCalls[c].response.type = "code_execution" =>
    /\ routeCalls[c].response.results = KeptFrom(routeCalls[c].execution.results, 1)
    /\ \A i \in 1..Len(routeCalls[c].execution.results) :
         routeCalls[c].execution.results[i].png = NoPng =>
           \E j \in 1..Len(routeCalls[c].response.results) :
             routeCalls[c].response.results[j] = routeCalls[c].execution.results[i]

\* A run gave two different pngs with the same first 200 characters around a
\* result without png: the response keeps the first png and the plain result.
C18_Witness ==
  \E c \in Calls :
    /\ routeCalls[c].pc = "done"
    /\ routeCalls[c].execution.results =
         <<ExecResult("t", PngA1), ExecResult("t", NoPng), ExecResult("t", PngA2)>>
    /\ routeCalls[c].response.results = <<ExecResult("t", PngA1), ExecResult("t", NoPng)>>

\* ---------------------------------------------------------------------
\* C20  Rate limit of /api/chat
\* ---------------------------------------------------------------------
C20_Step ==
  chatLog'.served = chatLog.served + 1 =>
    LET ip == chatLog'.last.ip
        old == requestCounts[ip]
        expired == old = NoRecord \/ now > old.resetTime
    IN /\ chatLog'.last.status = 429 =>
            /\ requestCounts' = requestCounts
            /\ ~chatLog'.last.graph
            /\ ~expired
            /\ chatLog.windows[ip].admitted = 30
       /\ expired =>
            /\ chatLog'.last.status /= 429
            /\ requestCounts'[ip] = RateRecord(1, now + 60000)
       /\ \A other \in Ips \ {ip} : requestCounts'[other] = requestCounts[other]

\* C20: per client identity at most 30 requests are admitted in one window; a
\* request beyond them is answered 429 before createGraph and leaves every
\* counter as it was; the first request after the window's expiry is admitted
\* and opens a new window with count 1.
C20_AtMostThirtyPerWindow ==
  /\ [](\A ip \in Ips : /\ chatLog.windows[ip].admitted <= 30
                        /\ requestCounts[ip].count = chatLog.windows[ip].admitted)
  /\ [][C20_Step]_vars

\* A client was rejected, its window expired, and its next request was admitted
\* as the first of a new window.
C20_Witness ==
  /\ chatLog.last.status = 200
  /\ chatLog.rejected = chatLog.last.ip
  /\ requestCounts[chatLog.last.ip] = RateRecord(1, now + 60000)
  /\ now > 60000

\* ---------------------------------------------------------------------
\* C19  Session files by name
\* ---------------------------------------------------------------------
FileNames(files) == {files[i].name : i \in 1..Len(files)}

UniqueNames(files) ==
  \A i, j \in 1..Len(files) : files[i].name = files[j].name => i = j

\* A send moves the pending files to the session files.
C19_SendStep ==
  Len(messages') = Len(messages) + 2 =>
    /\ pendingFiles' = <<>>
    /\ sessionFiles' = sessionFiles \o pendingFiles

\* The generated files of a finished run replace the session files of their names.
C19_GeneratedStep ==
  \A p \in Procs :
    proc[p].pc = "exec" /\ proc'[p].pc = "fetch" =>
      \A n \in FileNames(proc'[p].body.files) :
        /\ Cardinality({i \in 1..Len(sessionFiles') : sessionFiles'[i].name = n}) = 1
        /\ \A i \in 1..Len(sessionFiles') :
             sessionFiles'[i].name = n => sessionFiles'[i].isGenerated

C19_MovesAndReplaces == [][C19_SendStep /\ C19_GeneratedStep]_vars

\* C19: the session files hold at most one entry per file name; a generated
\* file whose name is already there replaces that entry and is flagged
\* isGenerated; a send moves every pending file to the session files and
\* leaves no pending file.
C19_OneEntryPerName ==
  /\ [](UniqueNames(sessionFiles))
  /\ C19_MovesAndReplaces

\* A generated out.csv has replaced the out.csv the user attached.
C19_Witness ==
  /\ \E i \in 1..Len(sessionFiles) :
       sessionFiles[i].name = "out.csv" /\ sessionFiles[i].isGenerated
  /\ \E i \in 1..Len(messages) : messages[i].role = "user"
  /\ \A i \in 1..Len(sessionFiles) : sessionFiles[i].name = "out.csv" => sessionFiles[i].isGenerated
  /\ Attached > 0 /\ pendingFiles = <<>> /\ Len(sessionFiles) = 1

\* ---------------------------------------------------------------- C21
\* The defects the claim lists, read off the request body alone.
EntryDefect(e) ==
  \/ field(e, "role").kind /= "string"
  \/ field(e, "content").kind /= "string"
  \/ Len(field(e, "content").val) > maxContentLength

Defective(body) ==
  \/ body.messages.kind /= "array"
  \/ /\ body.messages.kind = "array"
     /\ \/ Len(body.messages.val) > maxMessages
        \/ \E i \in 1..Len(body.messages.val) : EntryDefect(body.messages.val[i])
        \/ Len(body.messages.val) = 0 /\ body.toolResult.kind \in {"undefined", "null"}
  \/ body.files.kind \notin {"undefined", "null", "array"}

Validated == chatLog.served > 0 /\ chatLog.last.status /= 429 /\ chatLog.body.parses

\* C21: a request with one of the listed defects is answered 400 with a
\* validation error and no graph is created for it; a request with none of
\* them is not rejected as invalid.
C21_RejectsEveryInvalidRequest ==
  Validated =>
    IF Defective(chatLog.body)
    THEN /\ chatLog.last.status = 400
         /\ ~chatLog.last.graph
         /\ Len(chatLog.last.content) = 2
    ELSE chatLog.last.status = 200 /\ chatLog.last.graph

\* The same with "files present" read as "files truthy", which is what the
\* route tests.
C21_RejectsInvalidButFalsyFiles ==
  Validated =>
    IF Defective(chatLog.body) /\ (truthy(chatLog.body.files) \/ Defective([chatLog.body EXCEPT !.files = JUndefined]))
    THEN chatLog.last.status = 400 /\ ~chatLog.last.graph
    ELSE chatLog.last.status = 200 /\ chatLog.last.graph

C21_Witness ==
  /\ Validated
  /\ chatLog.body.files = JString(<<>>)
  /\ chatLog.body.messages = JArray(<<UserMessage>>)
  /\ chatLog.last.graph

\* ---------------------------------------------------------------- C22
\* C22: the error frame of a turn closed at the step ceiling carries the
\* errorType recursion_limit, the error frame of a turn closed by any other
\* failure carries execution_error.
C22_CeilingIsRecursionLimit ==
  \A p \in Procs :
    (srv[p].closed /\ Last(srv[p].out).type = "error") =>
      Last(srv[p].out).errorType =
        IF srv[p].steps >= recursionLimit THEN "recursion_limit" ELSE "execution_error"

\* What the catch block does tell apart: nothing.
C22_EveryErrorIsExecutionError ==
  \A p \in Procs : \A i \in 1..Len(srv[p].out) :
    srv[p].out[i].type = "error" => srv[p].out[i].errorType = "execution_error"

\* ---------------------------------------------------------------- C23
\* The sendMessage calls whose stream streamed text, then an error frame, and
\* has ended, on a message no approval has touched.
FailedAfterText ==
  {p \in EndedSends : /\ HasError(srv[p].out)
                      /\ StreamText(srv[p].out) /= <<>>
                      /\ ~Approved(proc[p].messageId)}

\* C23: when a turn fails after text was streamed, the streamed text stays in
\* the content and in the parts of the message, the error note follows it in
\* the content, and the message is marked non-streaming.
C23_FailureKeepsTextAndEndsStreaming ==
  \A p \in FailedAfterText :
    LET m == FindMessage(messages, proc[p].messageId) IN
    /\ m.content = StreamText(srv[p].out) \o Last(srv[p].out).content
    /\ PartsText(m) = StreamText(srv[p].out)
    /\ ~m.isStreaming

\* What holds of such a turn: text kept, note appended; the flag is left as
\* it was.
C23_FailureKeepsText ==
  \A p \in FailedAfterText :
    LET m == FindMessage(messages, proc[p].messageId) IN
    /\ m.content = StreamText(srv[p].out) \o Last(srv[p].out).content
    /\ PartsText(m) = StreamText(srv[p].out)
    /\ m.isStreaming

\* ---------------------------------------------------------------- C24
Reading(p) == proc[p].pc = "read"

TurnOver(p) == proc[p].pc = "done" /\ ~isLoading

Settled(p) == TurnOver(p) /\ ~FindMessage(messages, proc[p].messageId).isStreaming

\* C24: every turn whose request was sent eventually ends with the assistant
\* message marked non-streaming and isLoading false.
C24_EveryTurnSettles == \A p \in Procs : Reading(p) ~> Settled(p)

\* What holds: every turn is read to its end and isLoading is cleared.
C24_EveryTurnIsReadToItsEnd == \A p \in Procs : Reading(p) ~> TurnOver(p)

\* ---------------------------------------------------------------------
\* C25..C27  classifyDataset
\* ---------------------------------------------------------------------
Classified == dataset.classified /\ Len(dataset.rp.columns) > 0

\* The columns of the preview whose dtype is one of the given ones.
ColumnsOfDtype(dtypes) ==
  {i \in 1..Len(dataset.rp.columns) :
     /\ dataset.rp.columns[i] \in DOMAIN dataset.rp.dtypes
     /\ dataset.rp.dtypes[dataset.rp.columns[i]] \in dtypes}

\* The columns of the preview whose name holds one of the given words.
ColumnsNamed(words) ==
  {i \in 1..Len(dataset.rp.columns) : \E w \in words : includes(dataset.rp.columns[i], w)}

StrategyNames ==
  {dataset.result.strategies[i].name : i \in 1..Len(dataset.result.strategies)}

\* C25: for a preview without a column of numeric dtype the category is
\* neither time_series nor high_dimensional, the tags do not hold
\* high_dimensional, and the strategies hold none of correlation, clustering
\* and dimensionality reduction.
C25_NoNumericColumns ==
  (Classified /\ ColumnsOfDtype(NUMERIC_DTYPES) = {}) =>
    /\ dataset.result.profile.category \notin {"time_series", "high_dimensional"}
    /\ "high_dimensional" \notin dataset.result.profile.tags
    /\ StrategyNames \cap {"correlation", "clustering", "dimensionality_reduction"} = {}

\* A preview of more than 30 columns, none numeric, one of them a datetime.
C25_Witness ==
  /\ Classified
  /\ ColumnsOfDtype(NUMERIC_DTYPES) = {}
  /\ ColumnsOfDtype(DATETIME_DTYPES) /= {}
  /\ Len(dataset.rp.columns) > 30
  /\ "temporal" \in dataset.result.profile.tags

\* ---------------------------------------------------------------- C26
SalesPreview ==
  RichPreview(<<<<"d","a","t","e">>, <<"r","e","v","e","n","u","e">>, <<"r","e","g","i","o","n">>>>,
              (<<"d","a","t","e">> :> "datetime64[ns]") @@ (<<"r","e","v","e","n","u","e">> :> "float64")
                @@ (<<"r","e","g","i","o","n">> :> "object"),
              (<<"d","a","t","e">> :> 0) @@ (<<"r","e","v","e","n","u","e">> :> 0) @@ (<<"r","e","g","i","o","n">> :> 0),
              500)

\* C26: the preview date (datetime64[ns]), revenue (float64), region
\* (object), no nulls, shape [500,3] is classified time_series, tagged
\* temporal, and given the time-series and the basic exploratory strategies
\* and not clustering.
C26_SalesIsTimeSeries ==
  (dataset.classified /\ dataset.rp = SalesPreview) =>
    /\ dataset.result.profile.category = "time_series"
    /\ "temporal" \in dataset.result.profile.tags
    /\ {"time_series", "eda"} \subseteq StrategyNames
    /\ "clustering" \notin StrategyNames

\* What classifyDataset returns for it.
C26_SalesIsCrossSectional ==
  (dataset.classified /\ dataset.rp = SalesPreview) =>
    /\ dataset.result.profile.category = "cross_sectional"
    /\ "temporal" \in dataset.result.profile.tags
    /\ {"time_series", "eda"} \subseteq StrategyNames
    /\ "clustering" \notin StrategyNames

C26_Reached == dataset.classified /\ dataset.rp = SalesPreview

\* ---------------------------------------------------------------- C27
AmountWords == { <<"a","m","o","u","n","t">>, <<"p","r","i","c","e">>, <<"c","o","s","t">>, <<"r","e","v","e","n","u","e">>, <<"s","a","l","a","r","y">>, <<"v","a","l","u","e">>, <<"t","o","t","a","l">>, <<"s","u","m">> }
DatetimeWords == { <<"d","a","t","e">>, <<"t","i","m","e">>, <<"c","r","e","a","t","e","d">>, <<"u","p","d","a","t","e","d">>, <<"y","e","a","r">>, <<"m","o","n","t","h">>, <<"d","a","y">> }

IdColumns ==
  {i \in 1..Len(dataset.rp.columns) :
     \/ dataset.rp.columns[i] \in { <<"i","d">>, <<"u","i","d">>, <<"k","e","y">>, <<"i","n","d","e","x">> }
     \/ endsWith(dataset.rp.columns[i], <<"_","i","d">>)
     \/ includes(dataset.rp.columns[i], <<"c","o","d","e">>)}

TransactionalShape ==
  /\ Cardinality(ColumnsNamed(AmountWords)) >= 3
  /\ IdColumns /= {}
  /\ ColumnsOfDtype(DATETIME_DTYPES) \cup ColumnsNamed(DatetimeWords) /= {}

\* C27: a preview with at least three amount-named columns, an identifier
\* column and a datetime column is tagged transactional whatever its
\* category, and the transactional strategy is in its list.
C27_TransactionalTag ==
  (Classified /\ TransactionalShape) =>
    /\ "transactional" \in dataset.result.profile.tags
    /\ "transactional" \in StrategyNames

\* Such a preview whose category is time_series.
C27_Witness ==
  /\ Classified /\ TransactionalShape
  /\ dataset.result.profile.category = "time_series"
  /\ "transactional" \in dataset.result.profile.tags

\* ---------------------------------------------------------------------
\* C28  The preview route: checks before provisioning, teardown after
\* ---------------------------------------------------------------------
PreviewCalls == {c \in Calls : routeCalls[c].route = "preview"}

\* The request names a file that is too large or of a format not listed.
Refused(c) ==
  /\ routeCalls[c].body.files /= <<>>
  /\ \/ routeCalls[c].body.files[1].content > MAX_FILE_SIZE
     \/ extOf(routeCalls[c].body.files[1].name) \notin SUPPORTED_FORMATS

\* C28 as stated: a preview request whose file is over 10MB or of an
\* extension not in the list is refused before a sandbox is provisioned, and
\* every sandbox a preview call provisioned is killed when the call has
\* returned.
C28_CheckedBeforeAndKilled ==
  \A c \in PreviewCalls :
    /\ Refused(c) =>
         /\ Owned(c) = {}
         /\ routeCalls[c].pc = "done"
         /\ routeCalls[c].response.status = 400
    /\ routeCalls[c].pc = "done" => \A s \in Owned(c) : sandboxes[s].killed

\* C28 amended: a preview request whose file is over 10MB or of an extension
\* not in the list is answered 400 and no sandbox is provisioned for it; a
\* preview call that has returned has invoked kill once on every sandbox it
\* provisioned, whether or not the kill went through, and none is killed
\* while the call still runs.
C28_CheckedBeforeAndKillInvoked ==
  \A c \in PreviewCalls :
    /\ Refused(c) =>
         /\ Owned(c) = {}
         /\ routeCalls[c].pc = "done"
         /\ routeCalls[c].response.status = 400
    /\ routeCalls[c].pc = "done" =>
         /\ \A s \in Owned(c) : sandboxes[s].killers = {c}
         /\ routeCalls[c].kills = Cardinality(Owned(c))
    /\ routeCalls[c].pc /= "done" => routeCalls[c].kills = 0

\* One preview refused for its size, and one whose run threw after the
\* sandbox was provisioned, ended with its sandbox killed.
C28_Witness ==
  \E c, d \in PreviewCalls :
    /\ Refused(c) /\ routeCalls[c].body.files[1].content > MAX_FILE_SIZE
    /\ routeCalls[c].response.status = 400
    /\ routeCalls[d].pc = "done" /\ Owned(d) /= {}
    /\ routeCalls[d].response.status = 500
    /\ \A s \in Owned(d) : sandboxes[s].killed

\* ---------------------------------------------------------------- C29
AllSafe(calls) == \A i \in 1..Len(calls) : calls[i].name \in safeTools

\* The last n elements of a sequence.
Tail_n(s, n) == SubSeq(s, Len(s) - n + 1, Len(s))

C29_Step ==
  \A p \in Procs :
    LET calls == IF LastIsAI(srv[p]) THEN Last(srv[p].msgs).tool_calls ELSE <<>>
        n == Len(calls)
    IN (srv[p].node = "tools" /\ srv'[p].node = "agent" /\ AllSafe(calls)) =>
         /\ Len(srv[p].ran) >= n /\ Tail_n(srv[p].ran, n) = calls
         /\ Len(srv[p].out) >= n
         /\ Tail_n(srv[p].out, n) =
              [i \in 1..n |-> ToolCallFrame(calls[i].name, calls[i].args,
                                            safeToolResult(calls[i].name, calls[i].args))]
         /\ ReportedCalls(srv[p].out) = srv[p].ran
         /\ Len(srv'[p].msgs) = Len(srv[p].msgs) + n
         /\ \A i \in 1..n :
              /\ srv'[p].msgs[Len(srv[p].msgs) + i].role = "tool"
              /\ srv'[p].msgs[Len(srv[p].msgs) + i].content = <<calls[i].name>>
         /\ srv'[p].out = srv[p].out

\* C29: when the tool calls of an agent step are all safe, the tools step
\* has run every one of them, in order, with one tool_call frame for each,
\* and appends one result message for each to the history in the step that
\* hands over to the next agent step.
C29_SafeCallsAllRunBeforeNextAgent == [][C29_Step]_vars

\* The agent is up again after a tools step that ran two safe calls.
C29_Witness ==
  \E p \in Procs :
    /\ srv[p].node = "agent" /\ ~srv[p].closed
    /\ Len(srv[p].msgs) >= 3
    /\ Last(srv[p].msgs).role = "tool"
    /\ srv[p].msgs[Len(srv[p].msgs) - 1].role = "tool"
    /\ srv[p].ran = <<TC(searchKnowledge, "q"), TC(confirmAction, "act")>>
    /\ ReportedCalls(srv[p].out) = srv[p].ran

\* ---------------------------------------------------------------- C30
\* How far a tool-call record has got.
Progress(status) ==
  CASE status = "pending" -> 0
    [] status = "approved" -> 1
    [] OTHER -> 2

\* Nothing a record list held is taken away or set back.
KeepsRecords(old, new) ==
  /\ Len(new) >= Len(old)
  /\ \A k \in 1..Len(old) :
       /\ new[k].tool = old[k].tool /\ new[k].args = old[k].args
       /\ Progress(new[k].status) >= Progress(old[k].status)

C30_Step ==
  \A i \in 1..Len(messages) :
    messages[i].role = "assistant" =>
      /\ KeepsRecords(messages[i].toolCalls, messages'[i].toolCalls)
      /\ KeepsRecords(ToolParts(messages[i]), ToolParts(messages'[i]))
      /\ Len(messages'[i].content) >= Len(messages[i].content)
      /\ Len(PartsText(messages'[i])) >= Len(PartsText(messages[i]))

\* C30: whatever the interleaving of the actions on one assistant message,
\* no step takes away or sets back what an earlier step wrote to it: no
\* tool-call record or tool_call part disappears, no status goes back, no
\* text is dropped.  Every sequential order of the actions has this
\* property.
C30_NoUpdateLostOrReverted == [][C30_Step]_vars

\* ---------------------------------------------------------------------
\* C31  What the generated files of an execute response are
\* ---------------------------------------------------------------------
\* The names the staging loop wrote to the sandbox.
StagedNames(c) ==
  {routeCalls[c].body.files[i].name :
     i \in {k \in 1..Len(routeCalls[c].body.files) :
              /\ routeCalls[c].body.files[k].name /= <<>>
              /\ routeCalls[c].body.files[k].content /= 0}}

Answered(c) ==
  /\ routeCalls[c].route = "execute"
  /\ routeCalls[c].response.type = "code_execution"

\* C31: every generated file of an execute response is an entry of the mount
\* directory of type file, its name does not start with a dot and is not the
\* name of a staged input file; after a run that ended with an execution
\* error the list is empty and the call never is at the discovery step,
\* while stdout, stderr, results and the error text are those of the run.
C31_GeneratedFilesAreNewPlainFiles ==
  \A c \in Calls :
    /\ routeCalls[c].pc = "discover" => routeCalls[c].execution.error = ""
    /\ Answered(c) =>
         LET resp == routeCalls[c].response
             gf == resp.generatedFiles
         IN /\ \A i \in 1..Len(gf) :
                 /\ \E k \in 1..Len(DirOf(c)) :
                      DirOf(c)[k].name = gf[i].name /\ DirOf(c)[k].type = "file"
                 /\ gf[i].name[1] /= "."
                 /\ gf[i].name \notin StagedNames(c)
            /\ routeCalls[c].execution.error /= "" =>
                 /\ gf = <<>>
                 /\ routeCalls[c].previewFailed = {}
                 /\ resp.stdout = routeCalls[c].execution.stdout
                 /\ resp.stderr = routeCalls[c].execution.stderr
                 /\ resp.results = dedupeResults(routeCalls[c].execution.results)
                 /\ resp.error = routeCalls[c].execution.error

\* A run over a directory with a hidden file, a subdirectory and a rewritten
\* input file answered with the two new csv files and the exe file; and a run
\* that wrote a file and ended with an error answered with no file.
C31_Witness ==
  \E c, d \in Calls :
    /\ Answered(c) /\ StagedNames(c) = {DataCsv}
    /\ \E k \in 1..Len(DirOf(c)) : DirOf(c)[k].name = DotCache
    /\ \E k \in 1..Len(DirOf(c)) : DirOf(c)[k].type = "dir"
    /\ Included(c) = {OutCsv, PlotCsv, ToolExe}
    /\ Answered(d) /\ routeCalls[d].execution.error /= ""
    /\ \E k \in 1..Len(DirOf(d)) : DirOf(d)[k].name = OutCsv
    /\ routeCalls[d].response.generatedFiles = <<>>
    /\ routeCalls[d].response.stderr = "trace"

\* ---------------------------------------------------------------------
\* C32  Discovery and preview failures stay local
\* ---------------------------------------------------------------------
C32_Step ==
  \A c \in Calls :
    (routeCalls[c].pc = "discover" /\ routeCalls'[c].pc /= "discover") =>
      LET resp == routeCalls'[c].response
          gf == resp.generatedFiles
      IN /\ routeCalls'[c].pc = "finally"
         /\ resp.status = 200 /\ resp.type = "code_execution"
         /\ resp.stdout = routeCalls[c].execution.stdout
         /\ resp.stderr = routeCalls[c].execution.stderr
         /\ resp.results = routeCalls[c].results
         /\ resp.error = routeCalls[c].execution.error
         /\ \A i \in 1..Len(gf) :
              gf[i].richPreview <=>
                /\ extOf(gf[i].name) \in previewableExts
                /\ gf[i].name \notin routeCalls'[c].previewFailed

\* C32: the step that ends discovery and the previews always answers the
\* execute call with the output of the primary run; a generated file has no
\* richPreview exactly when it is not previewable or its own preview failed,
\* whatever happened to the previews before it.
C32_EnrichmentFailuresStayLocal == [][C32_Step]_vars

\* The preview of o.csv failed and p.csv, after it in the list, has its preview.
C32_Witness ==
  \E c \in Calls :
    /\ Answered(c)
    /\ routeCalls[c].previewFailed = {OutCsv}
    /\ \E i, j \in 1..Len(routeCalls[c].response.generatedFiles) :
         /\ i < j
         /\ routeCalls[c].response.generatedFiles[i].name = OutCsv
         /\ ~routeCalls[c].response.generatedFiles[i].richPreview
         /\ routeCalls[c].response.generatedFiles[j].name = PlotCsv
         /\ routeCalls[c].response.generatedFiles[j].richPreview
    /\ routeCalls[c].response.stdout = "out"

\* ---------------------------------------------------------------- C33
\* The counts of the classified preview, read off its columns.
NumericColumns == Cardinality(ColumnsOfDtype(NUMERIC_DTYPES))
CategoricalColumns == Cardinality(ColumnsOfDtype(CATEGORICAL_DTYPES))
DatetimeSeen == ColumnsOfDtype(DATETIME_DTYPES) \cup ColumnsNamed(DatetimeWords) /= {}

\* The scores of the classified preview.
PreviewScores ==
  scoresOf(Len(dataset.rp.columns), NumericColumns, CategoricalColumns, DatetimeSeen,
           Cardinality(ColumnsNamed(TEXT_PATTERNS)), Cardinality(ColumnsNamed(GEO_PATTERNS)),
           Cardinality(IdColumns), Cardinality(ColumnsNamed(AmountWords)))

\* C33: the category is the one with the highest score, the first in the
\* order of evaluation among those that share it, and general exactly when
\* no category has a score.
C33_HighestScoreFirstWins ==
  Classified =>
    LET cat == dataset.result.profile.category
        sc == PreviewScores
        scored == {k \in 1..Len(Categories) : sc[Categories[k]] /= NoScore}
    IN /\ cat = "general" <=> scored = {}
       /\ scored /= {} =>
            \E k \in scored :
              /\ cat = Categories[k]
              /\ \A j \in scored : sc[Categories[j]] <= sc[Categories[k]]
              /\ \A j \in scored : j < k => sc[Categories[j]] < sc[Categories[k]]

\* time_series and transactional share the highest score and time_series,
\* evaluated first, is the category.
C33_Witness ==
  /\ Classified
  /\ PreviewScores["time_series"] = PreviewScores["transactional"]
  /\ PreviewScores["time_series"] /= NoScore
  /\ PreviewScores["time_series"] > PreviewScores["geospatial"]
  /\ dataset.result.profile.category = "time_series"

\* ---------------------------------------------------------------- C34
\* C34: a preview with a column of numeric dtype is never classified general.
C34_NumericNeverGeneral ==
  (Classified /\ NumericColumns >= 1) => dataset.result.profile.category /= "general"

\* What holds: a preview more than three tenths of whose columns are numeric
\* is never classified general.
C34_ThreeTenthsNumericNeverGeneral ==
  (Classified /\ 10 * NumericColumns > 3 * Len(dataset.rp.columns)) =>
    dataset.result.profile.category /= "general"

\* ---------------------------------------------------------------- C35
\* The catalog in the order selectStrategies builds it, with the priorities.
Catalog ==
  <<Strategy("eda", 10), Strategy("missing_data", 9), Strategy("time_series", 9),
    Strategy("correlation", 8), Strategy("grouping", 7),
    Strategy("dimensionality_reduction", 7), Strategy("clustering", 6),
    Strategy("text", 7), Strategy("geospatial", 7), Strategy("transactional", 8),
    Strategy("distribution", 5)>>

\* The gating predicate of each catalog strategy for the classified preview.
Gate(name) ==
  LET profile == dataset.result.profile IN
  CASE name = "eda" -> TRUE
    [] name = "missing_data" -> profile.hasMissingData
    [] name = "time_series" -> profile.category = "time_series" \/ profile.hasDatetime
    [] name = "correlation" -> NumericColumns >= 3
    [] name = "grouping" -> CategoricalColumns >= 1 /\ NumericColumns >= 1
    [] name = "dimensionality_reduction" ->
         "high_dimensional" \in profile.tags \/ NumericColumns > 10
    [] name = "clustering" -> NumericColumns >= 3 /\ CategoricalColumns <= NumericColumns
    [] name = "text" -> profile.hasText \/ profile.category = "text_heavy"
    [] name = "geospatial" -> "geospatial" \in profile.tags
    [] name = "transactional" -> "transactional" \in profile.tags
    [] name = "distribution" -> NumericColumns >= 2

CatalogIndex(st) == CHOOSE k \in 1..Len(Catalog) : Catalog[k].name = st.name

\* C35: the strategies are the catalog strategies whose gate holds, each
\* once and with its catalog priority; the list is not empty and starts with
\* eda at priority 10; the priorities lie in 1..10 and never increase along
\* the list; strategies of equal priority keep the catalog order.
C35_StrategiesGatedAndSorted ==
  Classified =>
    LET st == dataset.result.strategies IN
    /\ Len(st) >= 1 /\ st[1] = Strategy("eda", 10)
    /\ \A i \in 1..Len(st) : \E k \in 1..Len(Catalog) : st[i] = Catalog[k]
    /\ \A k \in 1..Len(Catalog) :
         Cardinality({i \in 1..Len(st) : st[i].name = Catalog[k].name})
           = IF Gate(Catalog[k].name) THEN 1 ELSE 0
    /\ \A i \in 1..Len(st) : st[i].priority \in 1..10
    /\ \A i, j \in 1..Len(st) :
         i < j =>
           /\ st[i].priority >= st[j].priority
           /\ st[i].priority = st[j].priority => CatalogIndex(st[i]) < CatalogIndex(st[j])

\* A list with two strategies of priority 9, two of priority 8 and two of
\* priority 7, each pair in catalog order.
C35_Witness ==
  /\ Classified
  /\ {"missing_data", "time_series", "correlation", "transactional", "grouping", "geospatial"}
       \subseteq StrategyNames

\* ---------------------------------------------------------------- C36
\* C36: in every assistant message the i-th tool_call part carries the status
\* and the result of the i-th entry of toolCalls, whatever approvals,
\* rejections, completions and failures have happened.
C36_PartsMirrorToolCalls ==
  \A i \in 1..Len(messages) :
    messages[i].role = "assistant" =>
      \A k \in 1..Len(messages[i].toolCalls) :
        k \in 1..Len(ToolParts(messages[i])) =>
          /\ ToolParts(messages[i])[k].status = messages[i].toolCalls[k].status
          /\ ToolParts(messages[i])[k].result = messages[i].toolCalls[k].result

\* ---------------------------------------------------------------- C37
\* The execute requests made for one record: answered by the sandbox, or
\* still open in a call of approveToolCall that went past the guard.
ExecuteRequests(messageId, toolCallIndex) ==
  Cardinality({i \in 1..Len(sandboxRuns) :
                 /\ sandboxRuns[i].messageId = messageId
                 /\ sandboxRuns[i].toolCallIndex = toolCallIndex})
  + Cardinality({p \in Procs : /\ proc[p].pc = "exec"
                               /\ proc[p].messageId = messageId
                               /\ proc[p].toolCallIndex = toolCallIndex})

\* C37: no tool-call record has more than one execute request issued for it.
C37_OneExecuteRequestPerRecord ==
  \A i \in 1..Len(messages) :
    \A k \in 1..Len(messages[i].toolCalls) :
      ExecuteRequests(messages[i].id, k) <= 1

\* ---------------------------------------------------------------- C38
\* C38: once the whole body has been read, the frames the client applied are
\* the frames the server wrote, each once and in order, however the bytes
\* were cut into chunks.
C38_EveryFrameAppliedOnceInOrder ==
  (wire.closed /\ wire.bytes = <<>>) => wire.applied = wire.sent

\* s is t with some entries left out.
RECURSIVE IsSubsequence(_, _)
IsSubsequence(s, t) ==
  IF s = <<>> THEN TRUE
  ELSE IF t = <<>> THEN FALSE
  ELSE IF Head(s) = Head(t) THEN IsSubsequence(Tail(s), Tail(t))
  ELSE IsSubsequence(s, Tail(t))

\* What holds: no frame is applied twice or out of order.
C38_NoFrameTwiceOrOutOfOrder ==
  /\ Len(wire.applied) <= Len(wire.sent)
  /\ IsSubsequence(wire.applied, wire.sent)

\* ---------------------------------------------------------------- C39
\* The conversation clearMessages leaves.
Cleared == messages = <<>> /\ pendingFiles = <<>> /\ sessionFiles = <<>>

\* addFiles and sendMessage are the steps that take new ids.
UserAddsSomething == nextId' # nextId

\* C39: a cleared conversation stays cleared until the user attaches or
\* sends something: no step of a call that was in flight at the clear puts
\* a message or a file back.
C39_Step == (Cleared /\ ~UserAddsSomething) => Cleared'

C39_ClearedStaysEmpty == [][C39_Step]_vars

\* What holds: the messages and the pending files stay empty.
C39_MessagesStayEmpty ==
  [][(Cleared /\ ~UserAddsSomething) => (messages' = <<>> /\ pendingFiles' = <<>>)]_vars
====
